---- MODULE Spec2Model ----
(***************************************************************************)
(* Model of the component metadata resolution engine of                    *)
(* lit-docs-readme-generator: parseLitComponent, parseClassDeclaration,    *)
(* resolveMixinDocs, buildDocsFromDeclaration, mergeClassDocParts,         *)
(* cloneClassDocParts, ensureFileInfo and the import path resolver.        *)
(*                                                                         *)
(* A path is a sequence of components and a component is the sequence of   *)
(* its dot-separated parts: "/d/foo.ts" is << <<"d">>, <<"foo","ts">> >>.  *)
(* A fragment (ClassDocParts) lives on a heap and is named by a reference, *)
(* so that sharing an object and copying it are different things.          *)
(***************************************************************************)
EXTENDS Integers, Sequences, FiniteSets, TLC

VARIABLES world, status, visitIdx, componentDocs, stack, ret,
          docsCache, resolvingKeys, fileInfoMap, heap, reads, probe, merge, calls, prop, batch, event, scan, fn

vars == <<world, status, visitIdx, componentDocs, stack, ret,
          docsCache, resolvingKeys, fileInfoMap, heap, reads, probe, merge, calls, prop, batch, event, scan, fn>>

\* the variables of one parseLitComponent call
parseVars == <<world, status, visitIdx, componentDocs, stack, ret,
               docsCache, resolvingKeys, fileInfoMap, heap, reads>>

\* the variables a parseLitComponent call leaves alone: the functions exercised
\* on their own and the outcomes of the calls made before
aside == <<probe, merge, calls, prop, batch, event, scan, fn>>

(***************************************************************************)
(* Bounds of the explored inputs.                                          *)
(***************************************************************************)
MaxChain == 3
MaxHeritage == 1
MaxClasses == 2
MaxDepth == 14
MaxEntries == 2
MaxCalls == 2
MaxPatterns == 2
MaxOptions == 2
MaxListing == 3
MaxBody == 3

(***************************************************************************)
(* Generic helpers.                                                        *)
(***************************************************************************)
Last(s) == s[Len(s)]

Front(s) == SubSeq(s, 1, Len(s) - 1)

Range(s) == {s[i] : i \in 1..Len(s)}

SeqsUpTo(S, n) == UNION {[1..m -> S] : m \in 0..n}

NoPath == <<>>

Null == 0

NoRet == -1

(***************************************************************************)
(* The file system and the import path resolver.                           *)
(***************************************************************************)
extensionPriority == <<"ts", "tsx", "mts", "cts", "js", "mjs", "cjs", "jsx">>

tsExtensions == <<"ts", "tsx", "mts", "cts">>

jsExtensions == <<"js", "mjs", "cjs", "jsx">>

existsSync(fs, p) == p \in fs.files \/ p \in fs.dirs

WithExt(p, ext) == Append(Front(p), Append(Last(p), ext))

ReplaceExt(p, ext) == Append(Front(p), Append(Front(Last(p)), ext))

\* the candidate list of tryResolveFile, in insertion order
tryResolveCandidates(basePath) ==
  LET name == Last(basePath)
      hasDot == Len(name) > 1
      currentExtension == IF hasDot THEN Last(name) ELSE ""
      extensionRecognized == hasDot /\ currentExtension \in Range(extensionPriority)
  IN  IF ~extensionRecognized
        THEN <<basePath>> \o [i \in 1..Len(extensionPriority) |-> WithExt(basePath, extensionPriority[i])]
        ELSE IF currentExtension \in Range(jsExtensions)
          THEN <<basePath>> \o [i \in 1..Len(tsExtensions) |-> ReplaceExt(basePath, tsExtensions[i])]
          ELSE <<basePath>> \o [i \in 1..Len(jsExtensions) |-> ReplaceExt(basePath, jsExtensions[i])]

\* the index file of a directory: the first index.<ext> that is a regular file
RECURSIVE indexOfDirectory(_, _, _)
indexOfDirectory(fs, dir, i) ==
  IF i > Len(extensionPriority) THEN NoPath
  ELSE LET indexCandidate == Append(dir, <<"index", extensionPriority[i]>>)
       IN  IF indexCandidate \in fs.files THEN indexCandidate
           ELSE indexOfDirectory(fs, dir, i + 1)

RECURSIVE probeCandidates(_, _, _)
probeCandidates(fs, candidates, i) ==
  IF i > Len(candidates) THEN NoPath
  ELSE LET candidate == candidates[i]
       IN  IF ~existsSync(fs, candidate) THEN probeCandidates(fs, candidates, i + 1)
           ELSE IF candidate \in fs.files THEN candidate
           ELSE LET idx == indexOfDirectory(fs, candidate, 1)
                IN  IF idx # NoPath THEN idx
                    ELSE probeCandidates(fs, candidates, i + 1)

tryResolveFile(fs, basePath) == probeCandidates(fs, tryResolveCandidates(basePath), 1)

dirname(p) == Front(p)

\* variant: a specifier without leading '.' or '/' is resolved like a relative one
resolveBareAsRelative(fs, specifier, fromFile) ==
  LET baseDir == dirname(fromFile)
      rawPath == IF specifier.lead = "/" THEN specifier.comps ELSE baseDir \o specifier.comps
      resolvedDirect == tryResolveFile(fs, rawPath)
  IN  IF resolvedDirect # NoPath THEN resolvedDirect
      ELSE tryResolveFile(fs, Append(baseDir, Last(specifier.comps)))

\* a specifier is [lead |-> "." | "/" | "", comps |-> its path components]
resolveImportPath(fs, specifier, fromFile) ==
  IF specifier.lead = "" THEN NoPath
  ELSE LET baseDir == dirname(fromFile)
           rawPath == IF specifier.lead = "." THEN baseDir \o specifier.comps
                      ELSE specifier.comps
           resolvedDirect == tryResolveFile(fs, rawPath)
           fallbackPath == Append(baseDir, Last(specifier.comps))
       IN  IF resolvedDirect # NoPath THEN resolvedDirect
           ELSE tryResolveFile(fs, fallbackPath)

(***************************************************************************)
(* The explored source trees.  A world fixes the text of the entry file    *)
(* f1.ts and of its sibling f2.ts: the classes of the entry file, the      *)
(* composition functions A, B, C with their base-class chains, and the     *)
(* import statements.                                                      *)
(***************************************************************************)
D == <<"d">>

F1 == <<D, <<"f1", "ts">>>>

F2 == <<D, <<"f2", "ts">>>>

Mixins == {"A", "B", "C"}

Modes == {"local", "named", "default", "namespace", "bare", "missing", "cycle"}

ClassKinds == {"valid", "nodecorator", "nonliteral", "notlit"}

ClassNames == <<"K1", "K2", "K3", "K4">>

SharedName == <<NoPath, "shared">>

WorldFs(w) ==
  [files |-> (IF w.entryExists THEN {F1} ELSE {}) \cup (IF w.mode = "missing" THEN {} ELSE {F2}),
   dirs |-> {<<D>>}]

SpecLit == [lead |-> "", comps |-> <<<<"lit">>>>]

\* the package specifier 'f2': the name of the sibling file, without './'
SpecPkg == [lead |-> "", comps |-> <<<<"f2">>>>]

SpecF1 == [lead |-> ".", comps |-> <<<<"f1">>>>]

SpecF2 == [lead |-> ".", comps |-> <<<<"f2">>>>]

Stmt(specifier, exportName, type) ==
  [specifier |-> specifier, exportName |-> exportName, type |-> type]

\* the import statements of a file: local name -> statement
ImportStatements(w, f) ==
  LET lit == "LitElement" :> Stmt(SpecLit, "LitElement", "named")
  IN  IF f = F1
        THEN CASE w.mode = "local" -> lit
               [] w.mode = "default" -> lit @@ ("A" :> Stmt(SpecF2, "default", "default"))
               [] w.mode = "namespace" -> lit @@ ("A" :> Stmt(SpecF2, "*", "namespace"))
               [] w.mode = "bare" -> lit @@ ("A" :> Stmt(SpecPkg, "A", "named"))
               [] OTHER -> lit @@ ("A" :> Stmt(SpecF2, "A", "named"))
        ELSE IF w.mode = "cycle"
          THEN lit @@ ("C" :> Stmt(SpecF1, "C", "named")) @@ ("A" :> Stmt(SpecF1, "A", "named"))
          ELSE lit @@ ("C" :> Stmt(SpecF1, "C", "named"))

\* the composition functions a file declares: name -> base-class chain
MixinSources(w, f) ==
  IF f = F1
    THEN IF w.mode = "local"
           THEN ("A" :> w.hA) @@ ("B" :> w.hB) @@ ("C" :> <<>>)
           ELSE ("B" :> w.hB) @@ ("C" :> <<>>)
    ELSE CASE w.mode = "default" -> ("default" :> w.hA) @@ ("B" :> w.hB)
           [] w.mode = "cycle" -> ("B" :> w.hB)
           [] OTHER -> ("A" :> w.hA) @@ ("B" :> w.hB)

ClassOfKind(name, kind, chain) ==
  [name |-> name,
   base |-> IF kind = "notlit" THEN "" ELSE "LitElement",
   decorator |-> CASE kind = "nodecorator" -> "none"
                   [] kind = "nonliteral" -> "nonliteral"
                   [] OTHER -> "literal",
   chain |-> IF kind = "notlit" THEN <<>> ELSE chain]

\* the class declarations of the entry file, in source order: the last class
\* has the clause w.chain, the classes before it the clause w.earlier
ClassesOf(w) ==
  [i \in 1..Len(w.classes) |->
     ClassOfKind(ClassNames[i], w.classes[i], IF i = Len(w.classes) THEN w.chain ELSE w.earlier)]

(***************************************************************************)
(* Facts.  An entry is [name, from, via]: from is the declaration that     *)
(* wrote it, via tells the class node from the doc node.                   *)
(***************************************************************************)
E(name, from, via) == [name |-> name, from |-> from, via |-> via]

\* the declarations that hold the fact named SharedName: functions by their
\* name, "K" for the classes of the entry file
Sharer(k) == IF k[2] \in Mixins THEN k[2] ELSE IF k[2] = "default" THEN "A" ELSE "K"

SharedBy(w, k) == Sharer(k) \in w.shared

Own(w, k, via) ==
  IF SharedBy(w, k) THEN <<E(k, k, via), E(SharedName, k, via)>> ELSE <<E(k, k, via)>>

OwnValues(w, k) == IF SharedBy(w, k) THEN <<k, SharedName>> ELSE <<k>>

EmptyParts ==
  [description |-> <<>>, usage |-> <<>>, dependencies |-> <<>>, slots |-> <<>>,
   cssProperties |-> <<>>, cssParts |-> <<>>, properties |-> <<>>, events |-> <<>>,
   methods |-> <<>>]

\* what parseJsDoc reads on the doc node of a composition function
DocNodeJsDoc(w, k) ==
  [EmptyParts EXCEPT !.description = <<k, "doc">>,
                     !.usage = OwnValues(w, k),
                     !.dependencies = OwnValues(w, k),
                     !.slots = IF SharedBy(w, k) THEN <<E(SharedName, k, "doc")>> ELSE <<>>,
                     !.cssProperties = Own(w, k, "doc"),
                     !.cssParts = Own(w, k, "doc")]

\* what parseJsDoc reads on a class node: the class of a composition function
\* carries a description and its slot tags, the component class all its tags
ClassNodeJsDoc(w, k, isComponent) ==
  IF isComponent
    THEN [EmptyParts EXCEPT !.description = IF SharedBy(w, k) THEN <<k, "class">> ELSE <<>>,
                            !.usage = OwnValues(w, k),
                            !.dependencies = OwnValues(w, k),
                            !.slots = Own(w, k, "class"),
                            !.cssProperties = Own(w, k, "class"),
                            !.cssParts = Own(w, k, "class")]
    ELSE [EmptyParts EXCEPT !.description = IF SharedBy(w, k) THEN <<k, "class">> ELSE <<>>,
                            !.slots = Own(w, k, "class")]

\* the documented members of a class node
MembersOf(w, k) ==
  [properties |-> Own(w, k, "class"), methods |-> Own(w, k, "class"),
   events |-> Own(w, k, "class")]

(***************************************************************************)
(* Pure functions of the engine.                                           *)
(***************************************************************************)
\* variant: only the outermost callee is collected, arguments are not entered
collectOutermostName(chain, base) ==
  IF chain = <<>> THEN <<base>> ELSE <<Head(chain)>>

\* variant: the arguments are entered before the callee is pushed
RECURSIVE collectInnermostFirst(_, _)
collectInnermostFirst(chain, base) ==
  IF chain = <<>> THEN <<base>>
  ELSE collectInnermostFirst(Tail(chain), base) \o <<Head(chain)>>

\* a chain <<"A","B">> over the base identifier b is the expression A(B(b))
RECURSIVE collectMixinNamesFromExpression(_, _)
collectMixinNamesFromExpression(chain, base) ==
  IF chain = <<>> THEN <<base>>
  ELSE <<Head(chain)>> \o collectMixinNamesFromExpression(Tail(chain), base)

\* Array.from(new Set(names.filter(Boolean))): first occurrences, in order
RECURSIVE Dedupe(_)
Dedupe(names) ==
  IF names = <<>> THEN <<>>
  ELSE LET rest == Dedupe(Front(names))
       IN  IF Last(names) = "" \/ Last(names) \in Range(rest) THEN rest
           ELSE Append(rest, Last(names))

\* node is [base |-> identifier at the bottom of the extends clause ("" when
\* the class has no extends clause), chain |-> the functions applied to it]
extractMixinNamesFromClass(node) ==
  IF node.base = "" THEN <<>>
  ELSE Dedupe(collectMixinNamesFromExpression(node.chain, node.base))

extendsLitElement(node) == node.base = "LitElement"

\* variant: any customElement call gives a tag, its argument is not inspected
extractTagOfAnyCall(node) ==
  IF node.decorator # "none" THEN <<"tag", node.name>> ELSE <<>>

extractCustomElementTag(node) ==
  IF node.decorator = "literal" THEN <<"tag", node.name>> ELSE <<>>

\* variant: every entry of source is appended, names are not compared
MergeAppendingAll(target, source) == target \o source

\* variant: on a tie of names the entry of source takes the place of the target's
RECURSIVE MergeReplacingByName(_, _)
MergeReplacingByName(target, source) ==
  IF source = <<>> THEN target
  ELSE IF \E i \in 1..Len(target) : target[i].name = Head(source).name
    THEN MergeReplacingByName(
           [i \in 1..Len(target) |->
              IF target[i].name = Head(source).name THEN Head(source) ELSE target[i]],
           Tail(source))
    ELSE MergeReplacingByName(Append(target, Head(source)), Tail(source))

\* append the entries of source whose name the target does not hold yet
RECURSIVE MergeByName(_, _)
MergeByName(target, source) ==
  IF source = <<>> THEN target
  ELSE IF \E i \in 1..Len(target) : target[i].name = Head(source).name
    THEN MergeByName(target, Tail(source))
    ELSE MergeByName(Append(target, Head(source)), Tail(source))

\* variant: every value of source is appended, the target is not searched
MergeValuesAppendingAll(target, source) == target \o source

\* append the values of source the target does not include yet
RECURSIVE MergeByValue(_, _)
MergeByValue(target, source) ==
  IF source = <<>> THEN target
  ELSE IF Head(source) \in Range(target)
    THEN MergeByValue(target, Tail(source))
    ELSE MergeByValue(Append(target, Head(source)), Tail(source))

\* the target after mergeClassDocParts(target, source)
mergeClassDocParts(target, source) ==
  [description |-> IF target.description = <<>> /\ source.description # <<>>
                     THEN source.description ELSE target.description,
   usage |-> MergeByValue(target.usage, source.usage),
   dependencies |-> MergeByValue(target.dependencies, source.dependencies),
   properties |-> MergeByName(target.properties, source.properties),
   events |-> MergeByName(target.events, source.events),
   methods |-> MergeByName(target.methods, source.methods),
   slots |-> MergeByName(target.slots, source.slots),
   cssProperties |-> MergeByName(target.cssProperties, source.cssProperties),
   cssParts |-> MergeByName(target.cssParts, source.cssParts)]

\* variant: the dispatched events of the class are not extracted
collectClassDocPartsWithoutEvents(w, k, isComponent) ==
  LET classJsDoc == ClassNodeJsDoc(w, k, isComponent)
      members == MembersOf(w, k)
  IN  [classJsDoc EXCEPT !.properties = members.properties,
                         !.methods = members.methods]

collectClassDocParts(w, k, isComponent) ==
  LET classJsDoc == ClassNodeJsDoc(w, k, isComponent)
      members == MembersOf(w, k)
  IN  [classJsDoc EXCEPT !.properties = members.properties,
                         !.methods = members.methods,
                         !.events = members.events]

docPartsFromJsDoc(jsDoc) ==
  [jsDoc EXCEPT !.properties = <<>>, !.events = <<>>, !.methods = <<>>]

\* variant: the object itself is handed out, nothing is copied
shareClassDocParts(h, r) == [heap |-> h, ref |-> r]

\* cloneClassDocParts: a new object with the contents of the object at r
cloneClassDocParts(h, r) == [heap |-> Append(h, h[r]), ref |-> Len(h) + 1]

collectMixinDeclarations(w, f) ==
  LET src == MixinSources(w, f)
  IN  [n \in DOMAIN src |-> [classNode |-> [base |-> "Base", chain |-> src[n]], filePath |-> f]]

collectImportRecords(w, f) ==
  LET stmts == ImportStatements(w, f)
  IN  [n \in DOMAIN stmts |->
         [filePath |-> resolveImportPath(WorldFs(w), stmts[n].specifier, f),
          exportName |-> stmts[n].exportName,
          type |-> stmts[n].type]]

\* variant: the index map is not consulted, every request reads and indexes
ensureFileInfoUncached(w, map, filePath, hasSourceFile) ==
  IF ~hasSourceFile /\ ~existsSync(WorldFs(w), filePath)
    THEN [found |-> FALSE, map |-> map, read |-> <<>>]
    ELSE [found |-> TRUE,
          map |-> (filePath :> [filePath |-> filePath,
                                declarations |-> collectMixinDeclarations(w, filePath),
                                imports |-> collectImportRecords(w, filePath)]) @@ map,
          read |-> IF hasSourceFile THEN <<>> ELSE <<filePath>>]

\* ensureFileInfo: the context's index map afterwards, whether an index is
\* returned, and the files read on the way
ensureFileInfo(w, map, filePath, hasSourceFile) ==
  IF filePath \in DOMAIN map THEN [found |-> TRUE, map |-> map, read |-> <<>>]
  ELSE IF ~hasSourceFile /\ ~existsSync(WorldFs(w), filePath)
    THEN [found |-> FALSE, map |-> map, read |-> <<>>]
    ELSE [found |-> TRUE,
          map |-> (filePath :> [filePath |-> filePath,
                                declarations |-> collectMixinDeclarations(w, filePath),
                                imports |-> collectImportRecords(w, filePath)]) @@ map,
          read |-> IF hasSourceFile THEN <<>> ELSE <<filePath>>]

(***************************************************************************)
(* The state machine of one parseLitComponent call.  The recursion of      *)
(* resolveMixinDocs and buildDocsFromDeclaration is an explicit stack of   *)
(* frames [kind, key, docs, names]; ret carries a returned reference.      *)
(***************************************************************************)
W(entryExists, mode, chain, hA, hB, shared, classes) ==
  [entryExists |-> entryExists, mode |-> mode, chain |-> chain, hA |-> hA, hB |-> hB,
   shared |-> shared, classes |-> classes, earlier |-> chain]

Heritages == SeqsUpTo(Mixins, MaxHeritage)

\* B wraps at most one function
ShortHeritages == {h \in Heritages : Len(h) <= 1}

ClassLists == SeqsUpTo(ClassKinds, MaxClasses) \ {<<>>}

\* the shared fact is held by every declaration, or by all functions but one
SharerSets == {Mixins \cup {"K"}} \cup {Mixins \ {m} : m \in Mixins}

Distinct(s) == \A i, j \in 1..Len(s) : s[i] = s[j] => i = j

\* the extends clauses of the component: every clause shorter than MaxChain,
\* and the clauses of MaxChain applications that name no function twice
Chains == SeqsUpTo(Mixins, MaxChain - 1) \cup {c \in SeqsUpTo(Mixins, MaxChain) : Distinct(c)}

\* two components in the entry file, each applying one function
TwoComponentWorlds ==
  {[W(TRUE, "local", <<c>>, a, b, {}, <<"valid", "valid">>) EXCEPT !.earlier = <<e>>] :
      c \in Mixins, e \in Mixins, a \in Heritages, b \in ShortHeritages}

Worlds ==
  {W(TRUE, "local", c, a, b, {}, <<"valid">>) :
      c \in Chains, a \in Heritages, b \in ShortHeritages}
  \cup TwoComponentWorlds
  \cup {W(TRUE, "local", c, a, b, s, <<"valid">>) :
      c \in {d \in SeqsUpTo(Mixins, MaxChain - 1) : Distinct(d)},
      a \in Heritages, b \in ShortHeritages, s \in SharerSets}
  \cup {W(TRUE, m, c, a, b, {}, <<"valid">>) :
      m \in Modes \ {"local"}, c \in SeqsUpTo(Mixins, MaxChain - 2),
      a \in Heritages, b \in ShortHeritages}
  \cup {W(TRUE, "local", c, <<>>, <<>>, {}, k) : c \in {<<>>, <<"A">>}, k \in ClassLists}
  \cup {W(FALSE, "local", <<>>, <<>>, <<>>, {}, <<"valid">>)}

\* the worlds of the liveness check: the same graphs under shorter clauses
LiveWorlds ==
  {W(TRUE, "local", c, a, b, {}, <<"valid">>) :
      c \in {d \in SeqsUpTo(Mixins, MaxChain - 1) : Distinct(d)},
      a \in Heritages, b \in ShortHeritages}
  \cup {W(TRUE, m, <<"A">>, a, b, {}, <<"valid">>) :
      m \in Modes \ {"local"}, a \in Heritages, b \in ShortHeritages}
  \cup {W(TRUE, "local", <<"A">>, <<>>, <<>>, {}, k) : k \in ClassLists}
  \cup {W(FALSE, "local", <<>>, <<>>, <<>>, {}, <<"valid">>)}

Frame(kind, key, docs, names) == [kind |-> kind, key |-> key, docs |-> docs, names |-> names]

Top == stack[Len(stack)]

Pop == Front(stack)

ReplaceTop(f) == Append(Front(stack), f)

Entry == F1

\* the state at the start of a parseLitComponent call
Start ==
  /\ status = "init"
  /\ visitIdx = 1
  /\ componentDocs = <<>>
  /\ stack = <<>>
  /\ ret = NoRet
  /\ docsCache = <<>>
  /\ resolvingKeys = {}
  /\ fileInfoMap = <<>>
  /\ heap = <<>>
  /\ reads = <<>>

\* no import specifier is being resolved on its own
NoProbe == [fs |-> [files |-> {}, dirs |-> {}], specifier |-> SpecLit, done |-> TRUE, result |-> NoPath]

\* no merge is being made on its own
NoMerge ==
  [target |-> EmptyParts, source |-> EmptyParts, done |-> TRUE, again |-> TRUE, result |-> EmptyParts]

\* no property declaration is being parsed on its own
Undefined == [tag |-> "undefined", text |-> <<>>]

NoProp ==
  [node |-> [annotation |-> "", hint |-> <<>>, initializer |-> "none", name |-> <<>>,
             attributeOption |-> [kind |-> "absent", text |-> <<>>]],
   done |-> TRUE, type |-> "", attribute |-> Undefined, rendered |-> TRUE, cell |-> <<>>]

\* no generateDocs call is running
NoBatch == [status |-> "idle"]

\* no directory is being scanned on its own
NoScan == [entries |-> <<>>, fs |-> [files |-> {}, dirs |-> {}], done |-> TRUE, result |-> NoPath]

\* no class node: the null of the extract functions
NoClass == [kind |-> "none", at |-> 0]

\* no composition function is being read on its own
NoFn == [statements |-> <<>>, done |-> TRUE, classNode |-> NoClass, declared |-> FALSE]

Unset == [bubbles |-> "unset", composed |-> "unset", cancelable |-> "unset"]

\* no event construction is being read on its own
NoEvent == [argument |-> "none", properties |-> <<>>, done |-> TRUE, options |-> Unset]

Idle == probe = NoProbe /\ merge = NoMerge /\ calls = <<>> /\ prop = NoProp /\ batch = NoBatch /\ event = NoEvent /\ scan = NoScan /\ fn = NoFn

Init == world \in Worlds /\ Start /\ Idle

LiveInit == world \in LiveWorlds /\ Start /\ Idle

\* parseLitComponent: the entry file is read and indexed
ParseStart ==
  /\ status = "init"
  /\ Entry \in WorldFs(world).files
  /\ status' = "visiting"
  /\ reads' = Append(reads, Entry)
  /\ fileInfoMap' = ensureFileInfo(world, fileInfoMap, Entry, TRUE).map
  /\ UNCHANGED <<aside, world, visitIdx, componentDocs, stack, ret, docsCache, resolvingKeys, heap>>

\* parseLitComponent: readFileSync of a missing entry file throws
ParseThrow ==
  /\ status = "init"
  /\ Entry \notin WorldFs(world).files
  /\ status' = "thrown"
  /\ UNCHANGED <<aside, world, visitIdx, componentDocs, stack, ret, docsCache, resolvingKeys,
                 fileInfoMap, heap, reads>>

Visiting == status = "visiting" /\ stack = <<>> /\ visitIdx <= Len(world.classes)

\* visit: a class that does not extend LitElement is passed over
VisitSkip ==
  /\ Visiting
  /\ ~extendsLitElement(ClassesOf(world)[visitIdx])
  /\ visitIdx' = visitIdx + 1
  /\ UNCHANGED <<aside, world, status, componentDocs, stack, ret, docsCache, resolvingKeys,
                 fileInfoMap, heap, reads>>

\* parseClassDeclaration: no tag name, the result of the visit is null
VisitNoTag ==
  /\ Visiting
  /\ extendsLitElement(ClassesOf(world)[visitIdx])
  /\ extractCustomElementTag(ClassesOf(world)[visitIdx]) = <<>>
  /\ componentDocs' = <<>>
  /\ visitIdx' = visitIdx + 1
  /\ UNCHANGED <<aside, world, status, stack, ret, docsCache, resolvingKeys, fileInfoMap, heap, reads>>

\* parseClassDeclaration: the class facts are collected, the mixin loop starts
VisitComponent ==
  /\ Visiting
  /\ LET node == ClassesOf(world)[visitIdx]
         key == <<Entry, node.name>>
     IN  /\ extendsLitElement(node)
         /\ extractCustomElementTag(node) # <<>>
         /\ heap' = Append(heap, collectClassDocParts(world, key, TRUE))
         /\ stack' = <<Frame("attach", key, Len(heap) + 1, extractMixinNamesFromClass(node))>>
  /\ UNCHANGED <<aside, world, status, visitIdx, componentDocs, ret, docsCache, resolvingKeys,
                 fileInfoMap, reads>>

\* parseLitComponent returns componentDocs
VisitDone ==
  /\ status = "visiting"
  /\ stack = <<>>
  /\ visitIdx > Len(world.classes)
  /\ status' = "done"
  /\ UNCHANGED <<aside, world, visitIdx, componentDocs, stack, ret, docsCache, resolvingKeys,
                 fileInfoMap, heap, reads>>

\* the frame on top calls resolveMixinDocs for its next mixin name
PushCall ==
  Append(ReplaceTop([Top EXCEPT !.names = Tail(Top.names)]),
         Frame("call", <<Top.key[1], Head(Top.names)>>, Null, <<>>))

\* parseClassDeclaration: resolveMixinDocs(mixinName, mixinContext, filePath)
AttachCall ==
  /\ stack # <<>>
  /\ Top.kind = "attach"
  /\ ret = NoRet
  /\ Top.names # <<>>
  /\ Len(stack) < MaxDepth
  /\ stack' = PushCall
  /\ UNCHANGED <<aside, world, status, visitIdx, componentDocs, ret, docsCache, resolvingKeys,
                 fileInfoMap, heap, reads>>

\* variant: the methods of the resolved fragment are kept at the attachment
attachMixinDocsKeepingMethods(h, classDocs, mixinDocs) ==
  [h EXCEPT ![classDocs] = mergeClassDocParts(h[classDocs], h[mixinDocs])]

\* the heap after mixinDocs.methods = []; mergeClassDocParts(classDocs, mixinDocs)
attachMixinDocs(h, classDocs, mixinDocs) ==
  LET emptied == [h EXCEPT ![mixinDocs].methods = <<>>]
  IN  [emptied EXCEPT ![classDocs] = mergeClassDocParts(emptied[classDocs], emptied[mixinDocs])]

\* parseClassDeclaration: a resolved fragment is attached to the component
AttachMerge ==
  /\ stack # <<>>
  /\ Top.kind = "attach"
  /\ ret # NoRet
  /\ heap' = IF ret = Null THEN heap ELSE attachMixinDocs(heap, Top.docs, ret)
  /\ ret' = NoRet
  /\ UNCHANGED <<aside, world, status, visitIdx, componentDocs, stack, docsCache, resolvingKeys,
                 fileInfoMap, reads>>

\* parseClassDeclaration returns the record of the component
AttachReturn ==
  /\ stack # <<>>
  /\ Top.kind = "attach"
  /\ ret = NoRet
  /\ Top.names = <<>>
  /\ componentDocs' = <<[className |-> Top.key[2],
                         tagName |-> extractCustomElementTag(ClassesOf(world)[visitIdx]),
                         filePath |-> Top.key[1],
                         docs |-> heap[Top.docs]]>>
  /\ stack' = Pop
  /\ visitIdx' = visitIdx + 1
  /\ UNCHANGED <<aside, world, status, ret, docsCache, resolvingKeys, fileInfoMap, heap, reads>>

(***************************************************************************)
(* resolveMixinDocs(mixinName, context, filePath): the frame on top of the *)
(* stack is the call, its key is <<filePath, mixinName>>.                  *)
(***************************************************************************)
Calling == stack # <<>> /\ Top.kind = "call" /\ Top.key[2] # ""

\* variant: the in-progress set is never consulted
InProgressIgnored(keys, key) == FALSE

\* context.resolvingKeys.has(key)
InProgress(keys, key) == key \in keys

Lookup == ensureFileInfo(world, fileInfoMap, Top.key[1], FALSE)

Declared == Lookup.found /\ Top.key[2] \in DOMAIN Lookup.map[Top.key[1]].declarations

Imported ==
  /\ Lookup.found
  /\ Top.key[2] \in DOMAIN Lookup.map[Top.key[1]].imports
  /\ Lookup.map[Top.key[1]].imports[Top.key[2]].filePath # NoPath

ImportRecordOfTop == Lookup.map[Top.key[1]].imports[Top.key[2]]

\* variant: the kind of the import is not looked at
FollowedWhateverKind(importRecord) == TRUE

\* importRecord.type === 'namespace' returns null, the other kinds are followed
Followed(importRecord) == importRecord.type # "namespace"

\* variant: the cache is never consulted
CachedNever(cache, key) == FALSE

\* const cached = context.docsCache.get(key); if (cached)
Cached(cache, key) == key \in DOMAIN cache

\* a cache hit returns a copy of the cached fragment
ResolveCached ==
  /\ Calling
  /\ Cached(docsCache, Top.key)
  /\ LET c == cloneClassDocParts(heap, docsCache[Top.key])
     IN  heap' = c.heap /\ ret' = c.ref
  /\ stack' = Pop
  /\ UNCHANGED <<aside, world, status, visitIdx, componentDocs, docsCache, resolvingKeys,
                 fileInfoMap, reads>>

\* a key that is being resolved returns null
ResolveCycle ==
  /\ Calling
  /\ ~Cached(docsCache, Top.key)
  /\ InProgress(resolvingKeys, Top.key)
  /\ ret' = Null
  /\ stack' = Pop
  /\ UNCHANGED <<aside, world, status, visitIdx, componentDocs, docsCache, resolvingKeys,
                 fileInfoMap, heap, reads>>

Fresh == Calling /\ ~Cached(docsCache, Top.key) /\ ~InProgress(resolvingKeys, Top.key)

\* a local declaration: the key is marked and buildDocsFromDeclaration collects
\* the facts of the class node and of the doc node
ResolveDeclaration ==
  /\ Fresh
  /\ Declared
  /\ LET declaration == Lookup.map[Top.key[1]].declarations[Top.key[2]]
         docs == mergeClassDocParts(collectClassDocParts(world, Top.key, FALSE),
                                    docPartsFromJsDoc(DocNodeJsDoc(world, Top.key)))
     IN  /\ heap' = Append(heap, docs)
         /\ stack' = ReplaceTop(Frame("decl", Top.key, Len(heap) + 1,
                                      extractMixinNamesFromClass(declaration.classNode)))
  /\ resolvingKeys' = resolvingKeys \cup {Top.key}
  /\ fileInfoMap' = Lookup.map
  /\ reads' = reads \o Lookup.read
  /\ UNCHANGED <<aside, world, status, visitIdx, componentDocs, ret, docsCache>>

\* a named or default import with a resolved file: the key is marked and the
\* exported name is resolved in the imported file
ResolveImport ==
  /\ Fresh
  /\ ~Declared
  /\ Imported
  /\ Followed(ImportRecordOfTop)
  /\ Len(stack) < MaxDepth
  /\ resolvingKeys' = resolvingKeys \cup {Top.key}
  /\ stack' = Append(ReplaceTop(Frame("import", Top.key, Null, <<>>)),
                     Frame("call", <<ImportRecordOfTop.filePath, ImportRecordOfTop.exportName>>,
                           Null, <<>>))
  /\ fileInfoMap' = Lookup.map
  /\ reads' = reads \o Lookup.read
  /\ UNCHANGED <<aside, world, status, visitIdx, componentDocs, ret, docsCache, heap>>

\* a namespace import is not followed
ResolveNamespace ==
  /\ Fresh
  /\ ~Declared
  /\ Imported
  /\ ~Followed(ImportRecordOfTop)
  /\ ret' = Null
  /\ stack' = Pop
  /\ fileInfoMap' = Lookup.map
  /\ reads' = reads \o Lookup.read
  /\ UNCHANGED <<aside, world, status, visitIdx, componentDocs, docsCache, resolvingKeys, heap>>

\* no file index, or neither a declaration nor an import with a resolved file
ResolveNone ==
  /\ Fresh
  /\ ~Declared
  /\ ~Imported
  /\ ret' = Null
  /\ stack' = Pop
  /\ fileInfoMap' = Lookup.map
  /\ reads' = reads \o Lookup.read
  /\ UNCHANGED <<aside, world, status, visitIdx, componentDocs, docsCache, resolvingKeys, heap>>

\* buildDocsFromDeclaration: resolveMixinDocs(name, context, declaration.filePath)
DeclCall ==
  /\ stack # <<>>
  /\ Top.kind = "decl"
  /\ ret = NoRet
  /\ Top.names # <<>>
  /\ Len(stack) < MaxDepth
  /\ stack' = PushCall
  /\ UNCHANGED <<aside, world, status, visitIdx, componentDocs, ret, docsCache, resolvingKeys,
                 fileInfoMap, heap, reads>>

\* buildDocsFromDeclaration: mergeClassDocParts(docs, depDocs)
DeclMerge ==
  /\ stack # <<>>
  /\ Top.kind = "decl"
  /\ ret # NoRet
  /\ heap' = IF ret = Null THEN heap
             ELSE [heap EXCEPT ![Top.docs] = mergeClassDocParts(heap[Top.docs], heap[ret])]
  /\ ret' = NoRet
  /\ UNCHANGED <<aside, world, status, visitIdx, componentDocs, stack, docsCache, resolvingKeys,
                 fileInfoMap, reads>>

\* variant: a key stays in progress after its resolution
UnmarkedNever(keys, key) == keys

\* context.resolvingKeys.delete(key)
Unmarked(keys, key) == keys \ {key}

\* the result r of a resolution is copied into the cache and a copy of the
\* cached object is returned
CacheAndReturn(key, r) ==
  LET cloned == cloneClassDocParts(heap, r)
      returned == cloneClassDocParts(cloned.heap, cloned.ref)
  IN  /\ docsCache' = (key :> cloned.ref) @@ docsCache
      /\ heap' = returned.heap
      /\ ret' = returned.ref

\* the declaration is built: the key is unmarked, the fragment cached
DeclReturn ==
  /\ stack # <<>>
  /\ Top.kind = "decl"
  /\ ret = NoRet
  /\ Top.names = <<>>
  /\ resolvingKeys' = Unmarked(resolvingKeys, Top.key)
  /\ CacheAndReturn(Top.key, Top.docs)
  /\ stack' = Pop
  /\ UNCHANGED <<aside, world, status, visitIdx, componentDocs, fileInfoMap, reads>>

\* the imported name is resolved: the key is unmarked, a non-null fragment cached
ImportReturn ==
  /\ stack # <<>>
  /\ Top.kind = "import"
  /\ ret # NoRet
  /\ resolvingKeys' = Unmarked(resolvingKeys, Top.key)
  /\ IF ret # Null THEN CacheAndReturn(Top.key, ret)
     ELSE ret' = Null /\ UNCHANGED <<docsCache, heap>>
  /\ stack' = Pop
  /\ UNCHANGED <<aside, world, status, visitIdx, componentDocs, fileInfoMap, reads>>

Next ==
  \/ ParseStart
  \/ ParseThrow
  \/ VisitSkip
  \/ VisitNoTag
  \/ VisitComponent
  \/ VisitDone
  \/ AttachCall
  \/ AttachMerge
  \/ AttachReturn
  \/ ResolveCached
  \/ ResolveCycle
  \/ ResolveDeclaration
  \/ ResolveImport
  \/ ResolveNamespace
  \/ ResolveNone
  \/ DeclCall
  \/ DeclMerge
  \/ DeclReturn
  \/ ImportReturn

Spec == Init /\ [][Next]_vars

LiveSpec == LiveInit /\ [][Next]_vars /\ WF_vars(Next)

(***************************************************************************)
(* The parser without composition support: parseClassDeclaration reads the *)
(* facts of the class and of its own doc comment, and nothing else.        *)
(***************************************************************************)
directParseClassDeclaration(w, node) ==
  LET key == <<Entry, node.name>>
      tagName == extractCustomElementTag(node)
      classJsDoc == ClassNodeJsDoc(w, key, TRUE)
      members == MembersOf(w, key)
  IN  IF tagName = <<>> THEN <<>>
      ELSE <<[className |-> node.name,
              tagName |-> tagName,
              filePath |-> Entry,
              docs |-> [description |-> classJsDoc.description,
                        usage |-> classJsDoc.usage,
                        properties |-> members.properties,
                        events |-> members.events,
                        methods |-> members.methods,
                        slots |-> classJsDoc.slots,
                        cssProperties |-> classJsDoc.cssProperties,
                        cssParts |-> classJsDoc.cssParts,
                        dependencies |-> classJsDoc.dependencies]]>>

(***************************************************************************)
(* Several parseLitComponent calls of one process on the same file: the    *)
(* calls are synchronous, so one ends before the next begins.              *)
(***************************************************************************)
\* variant: the context is a module-level object that outlives the call
KeptContext == [docsCache |-> docsCache, resolvingKeys |-> resolvingKeys, fileInfoMap |-> fileInfoMap]

\* const mixinContext = { docsCache: new Map(), resolvingKeys: new Set(), fileInfoMap: new Map() }
NewContext == [docsCache |-> <<>>, resolvingKeys |-> {}, fileInfoMap |-> <<>>]

\* what a finished call gave: its return value or its throw, and the files it read
Outcome == [status |-> status, componentDocs |-> componentDocs, reads |-> reads]

\* the call has returned or thrown; parseLitComponent is called again
CallAgain ==
  /\ status \in {"done", "thrown"}
  /\ Len(calls) + 1 < MaxCalls
  /\ calls' = Append(calls, Outcome)
  /\ status' = "init"
  /\ visitIdx' = 1
  /\ componentDocs' = <<>>
  /\ stack' = <<>>
  /\ ret' = NoRet
  /\ reads' = <<>>
  /\ docsCache' = NewContext.docsCache
  /\ resolvingKeys' = NewContext.resolvingKeys
  /\ fileInfoMap' = NewContext.fileInfoMap
  /\ UNCHANGED <<world, heap, probe, merge, prop, batch, event, scan, fn>>

SessionNext == Next \/ CallAgain

SessionSpec == LiveInit /\ [][SessionNext]_vars

TypeOK ==
  /\ status \in {"init", "visiting", "done", "thrown"}
  /\ ret \in -1..Len(heap)
  /\ resolvingKeys \cap DOMAIN docsCache = {}

(***************************************************************************)
(* The import path resolver on its own: one specifier is resolved from the *)
(* entry file against a directory /d that may hold foo.ts, foo.tsx,        *)
(* foo.js, bar.ts and a directory foo with index files.                    *)
(***************************************************************************)
Foo(ext) == <<D, <<"foo", ext>>>>

FooDir == <<D, <<"foo">>>>

FooIndex(ext) == <<D, <<"foo">>, <<"index", ext>>>>

SpecFoo == [lead |-> ".", comps |-> <<<<"foo">>>>]

ProbeSpecifiers ==
  {SpecFoo,
   [lead |-> ".", comps |-> <<<<"foo", "js">>>>],
   [lead |-> ".", comps |-> <<<<"foo", "ts">>>>],
   [lead |-> ".", comps |-> <<<<"sub">>, <<"foo">>>>],
   [lead |-> "", comps |-> <<<<"foo">>>>]}

ProbeFileSystems ==
  {[files |-> {F1} \cup plain, dirs |-> {<<D>>}] :
      plain \in SUBSET {Foo("ts"), Foo("tsx"), Foo("js"), <<D, <<"bar", "ts">>>>}}
  \cup {[files |-> {F1} \cup plain \cup index, dirs |-> {<<D>>, FooDir}] :
      plain \in SUBSET {Foo("ts"), Foo("tsx"), Foo("js"), <<D, <<"bar", "ts">>>>},
      index \in SUBSET {FooIndex("ts"), FooIndex("js")}}

FsInit ==
  /\ world = W(TRUE, "local", <<>>, <<>>, <<>>, {}, <<"valid">>)
  /\ Start
  /\ fn = NoFn
  /\ scan = NoScan
  /\ event = NoEvent
  /\ probe \in {[fs |-> fs, specifier |-> sp, done |-> FALSE, result |-> NoPath] :
                  fs \in ProbeFileSystems, sp \in ProbeSpecifiers}
  /\ merge = NoMerge
  /\ calls = <<>>
  /\ prop = NoProp
  /\ batch = NoBatch

\* collectImportRecords: resolveImportPath(node.moduleSpecifier.text, filePath)
FsResolve ==
  /\ ~probe.done
  /\ probe' = [probe EXCEPT !.done = TRUE,
                            !.result = resolveImportPath(probe.fs, probe.specifier, Entry)]
  /\ UNCHANGED <<parseVars, merge, calls, prop, batch, event, scan, fn>>

FsNext == FsResolve

FsSpec == FsInit /\ [][FsNext]_vars

(***************************************************************************)
(* mergeClassDocParts on its own: a target and a source fragment are drawn *)
(* from the fragments whose collections hold up to MaxEntries entries over *)
(* two names; entries of one name differ by their text.                    *)
(***************************************************************************)
EntryNames == {"x", "y"}

Entries == {E(n, t, "class") : n \in EntryNames, t \in {"p", "q"}}

RECURSIVE NamesOf(_)
NamesOf(entries) ==
  IF entries = <<>> THEN <<>> ELSE <<Head(entries).name>> \o NamesOf(Tail(entries))

\* the fragment whose named collections hold the entries es and whose usage
\* and dependencies hold their names
FragmentOf(description, es) ==
  [description |-> description, usage |-> NamesOf(es), dependencies |-> NamesOf(es),
   slots |-> es, cssProperties |-> es, cssParts |-> es, properties |-> es, events |-> es,
   methods |-> es]

Fragments == {FragmentOf(d, es) : d \in {<<>>, <<"p">>, <<"q">>}, es \in SeqsUpTo(Entries, MaxEntries)}

MergeInit ==
  /\ world = W(TRUE, "local", <<>>, <<>>, <<>>, {}, <<"valid">>)
  /\ Start
  /\ fn = NoFn
  /\ scan = NoScan
  /\ event = NoEvent
  /\ probe = NoProbe
  /\ calls = <<>>
  /\ prop = NoProp
  /\ batch = NoBatch
  /\ merge \in {[target |-> t, source |-> s, done |-> FALSE, again |-> FALSE, result |-> t] :
                  t \in Fragments, s \in Fragments}

\* mergeClassDocParts(target, source): result is the target afterwards
MergeApply ==
  /\ ~merge.done
  /\ merge' = [merge EXCEPT !.done = TRUE,
                            !.result = mergeClassDocParts(merge.target, merge.source)]
  /\ UNCHANGED <<parseVars, probe, calls, prop, batch, event, scan, fn>>

\* the same source is merged into the target once more
MergeAgain ==
  /\ merge.done
  /\ ~merge.again
  /\ merge' = [merge EXCEPT !.again = TRUE,
                            !.result = mergeClassDocParts(merge.result, merge.source)]
  /\ UNCHANGED <<parseVars, probe, calls, prop, batch, event, scan, fn>>

MergeNext == MergeApply \/ MergeAgain

MergeSpec == MergeInit /\ [][MergeNext]_vars

(***************************************************************************)
(* parseProperty on its own: the type label of a decorated property.  A    *)
(* declaration is [annotation, hint, initializer]: the text of its type    *)
(* annotation ("" without one), the type option of its decorator as        *)
(* [name, Constructor suffix] (<<>> without one), the kind of initializer, *)
(* its name as a sequence of characters, and the attribute option of its   *)
(* decorator: absent, the word false, a string literal or another          *)
(* expression.  An attribute value is undefined, null or a string.         *)
(***************************************************************************)
StringValue(text) == [tag |-> "string", text |-> text]

UpperCase == {"A", "B"}

LowerCase == {"a", "b", "c", "d"}

toLowerCase(c) == CASE c = "A" -> "a" [] c = "B" -> "b" [] OTHER -> c

\* str.replace(/([a-z])([A-Z])/g, '$1-$2').toLowerCase()
kebabCase(str) ==
  LET piece(i) == IF i > 1 /\ str[i - 1] \in LowerCase /\ str[i] \in UpperCase
                    THEN <<"-", toLowerCase(str[i])>> ELSE <<toLowerCase(str[i])>>
      F[i \in 0..Len(str)] == IF i = 0 THEN <<>> ELSE F[i - 1] \o piece(i)
  IN  F[Len(str)]

\* extractPropertyDecorator: the attribute of @property(options); a string
\* literal sets it, the word false assigns undefined, anything else leaves it
extractPropertyDecoratorAttribute(node) ==
  IF node.attributeOption.kind = "literal" THEN StringValue(node.attributeOption.text)
  ELSE Undefined

\* a text between backticks
Ticked(text) == <<"tick">> \o text \o <<"tick">>

\* generatePropertiesTable: the Attribute cell of a property that is no state
attributeCell(name, attribute) ==
  CASE attribute.tag = "undefined" -> Ticked(kebabCase(name))
    [] attribute.tag = "null" -> <<"-", "-">>
    [] OTHER -> Ticked(attribute.text)

PropNames == {<<"a", "b">>, <<"a", "B", "c">>}

AttributeOptions ==
  {[kind |-> "absent", text |-> <<>>], [kind |-> "false", text |-> <<>>],
   [kind |-> "other", text |-> <<>>], [kind |-> "literal", text |-> <<"d">>],
   [kind |-> "literal", text |-> <<"a", "-", "b", "-", "c">>]}

\* normalizeDecoratorTypeName: raw is <<name>> or <<name, "Constructor">>
normalizeDecoratorTypeName(raw) ==
  LET cleaned == raw[1]
  IN  CASE cleaned = "String" -> "string"
        [] cleaned = "Number" -> "number"
        [] cleaned = "Boolean" -> "boolean"
        [] cleaned = "Array" -> "unknown[]"
        [] cleaned = "Object" -> "Record<string, unknown>"
        [] cleaned = "Date" -> "Date"
        [] OTHER -> cleaned

\* inferTypeFromInitializer: "" stands for undefined
inferTypeFromInitializer(initializer) ==
  CASE initializer \in {"string", "template"} -> "string"
    [] initializer \in {"true", "false"} -> "boolean"
    [] initializer \in {"numeric", "negative"} -> "number"
    [] initializer = "array" -> "unknown[]"
    [] initializer = "object" -> "Record<string, unknown>"
    [] initializer = "null" -> "null"
    [] initializer = "undefined" -> "undefined"
    [] OTHER -> ""

\* parseProperty: const type = node.type ? node.type.getText() : 'any'
typeOfProperty(node) == IF node.annotation # "" THEN node.annotation ELSE "any"

Annotations == {"", "string", "number", "Foo"}

Hints == {<<>>, <<"String">>, <<"Number">>, <<"Boolean">>, <<"Array">>, <<"Object">>, <<"Date">>,
          <<"Foo">>, <<"String", "Constructor">>}

Initializers == {"none", "string", "template", "true", "numeric", "negative", "array", "object",
                 "null", "undefined", "call"}

PropInit ==
  /\ world = W(TRUE, "local", <<>>, <<>>, <<>>, {}, <<"valid">>)
  /\ Start
  /\ fn = NoFn
  /\ scan = NoScan
  /\ event = NoEvent
  /\ probe = NoProbe
  /\ merge = NoMerge
  /\ calls = <<>>
  /\ batch = NoBatch
  /\ prop \in {[node |-> [annotation |-> a, hint |-> h, initializer |-> i, name |-> n,
                           attributeOption |-> o],
                 done |-> FALSE, type |-> "", attribute |-> Undefined, rendered |-> FALSE,
                 cell |-> <<>>] :
                 a \in Annotations, h \in Hints, i \in Initializers, n \in PropNames,
                 o \in AttributeOptions}

\* parseProperty(member, sourceFile) on a property with a property decorator
PropParse ==
  /\ ~prop.done
  /\ prop' = [prop EXCEPT !.done = TRUE, !.type = typeOfProperty(prop.node),
                          !.attribute = extractPropertyDecoratorAttribute(prop.node)]
  /\ UNCHANGED <<parseVars, probe, merge, calls, batch, event, scan, fn>>

\* generatePropertiesTable: the row of the parsed property
PropRender ==
  /\ prop.done
  /\ ~prop.rendered
  /\ prop' = [prop EXCEPT !.rendered = TRUE, !.cell = attributeCell(prop.node.name, prop.attribute)]
  /\ UNCHANGED <<parseVars, probe, merge, calls, batch, event, scan, fn>>

PropNext == PropParse \/ PropRender

PropSpec == PropInit /\ [][PropNext]_vars

(***************************************************************************)
(* generateDocs: for each pattern the matched files are processed in       *)
(* order.  The component files g1 and g2 lie in directory x, g3 in y.  A   *)
(* file is a component, is not one (parseLitComponent returns null), or    *)
(* makes parsing, rendering or writing throw.  readme tells for each       *)
(* directory what its README.md holds: "none", "old" (it was there before  *)
(* the call) or the file it was generated from.                            *)
(***************************************************************************)
GFiles == {"g1", "g2", "g3"}

Dirs == {"x", "y"}

\* dirname(filePath)
DirOf(f) == IF f = "g3" THEN "y" ELSE "x"

Throwing == {"parseThrows", "renderThrows", "writeThrows"}

FileKinds ==
  {("g1" :> a) @@ ("g2" :> b) @@ ("g3" :> c) :
     a \in {"component", "null"} \cup Throwing,
     b \in {"component", "parseThrows", "writeThrows"},
     c \in {"component", "null"}}

\* what glob gives for a pattern: the matched files, or a rejection
GlobResults ==
  {[ok |-> TRUE, files |-> <<"g1", "g2", "g3">>], [ok |-> TRUE, files |-> <<"g3", "g1">>],
   [ok |-> TRUE, files |-> <<>>], [ok |-> FALSE, files |-> <<>>]}

Readmes == {("x" :> "none") @@ ("y" :> "none"), ("x" :> "old") @@ ("y" :> "none"),
            ("x" :> "old") @@ ("y" :> "old")}

BatchInit ==
  /\ world = W(TRUE, "local", <<>>, <<>>, <<>>, {}, <<"valid">>)
  /\ Start
  /\ fn = NoFn
  /\ scan = NoScan
  /\ event = NoEvent
  /\ probe = NoProbe
  /\ merge = NoMerge
  /\ calls = <<>>
  /\ prop = NoProp
  /\ batch \in {[status |-> "running", patterns |-> ps, overwrite |-> o, kinds |-> k,
                  readme |-> r, pi |-> 1, fi |-> 0, processedCount |-> 0,
                  attempted |-> <<>>, written |-> <<>>] :
                   ps \in SeqsUpTo(GlobResults, MaxPatterns) \ {<<>>}, o \in BOOLEAN,
                   k \in FileKinds, r \in Readmes}

BatchRunning == batch.status = "running"

\* the file of the inner loop
FileAtCursor == batch.patterns[batch.pi].files[batch.fi]

InFileLoop ==
  /\ BatchRunning
  /\ batch.pi <= Len(batch.patterns)
  /\ batch.fi >= 1
  /\ batch.fi <= Len(batch.patterns[batch.pi].files)

\* the loop goes on with the next file
NextFile(b) == [b EXCEPT !.fi = @ + 1, !.attempted = Append(@, b.patterns[b.pi].files[b.fi])]

\* variant: an existing README.md is not looked for
MayWriteAlways(b, dir) == TRUE

\* existsSync(readmePath) && !options.overwrite skips the file
MayWrite(b, dir) == ~(b.readme[dir] # "none" /\ ~b.overwrite)

\* variant: no try block, the error of a file leaves generateDocs
afterThrowRejecting(b) == [NextFile(b) EXCEPT !.status = "rejected"]

\* catch (error): the error is logged and the loop goes on
afterThrow(b) == NextFile(b)

\* await glob(pattern, ...): outside the try block, a rejection leaves generateDocs
BatchGlob ==
  /\ BatchRunning
  /\ batch.pi <= Len(batch.patterns)
  /\ batch.fi = 0
  /\ batch' = IF batch.patterns[batch.pi].ok THEN [batch EXCEPT !.fi = 1]
              ELSE [batch EXCEPT !.status = "rejected"]
  /\ UNCHANGED <<parseVars, probe, merge, calls, prop, event, scan, fn>>

\* parseLitComponent returns null: the file is skipped
BatchNotComponent ==
  /\ InFileLoop
  /\ batch.kinds[FileAtCursor] = "null"
  /\ batch' = NextFile(batch)
  /\ UNCHANGED <<parseVars, probe, merge, calls, prop, event, scan, fn>>

\* parseLitComponent, the template or writeFileSync throws inside the try block
BatchThrow ==
  /\ InFileLoop
  /\ \/ batch.kinds[FileAtCursor] \in {"parseThrows", "renderThrows"}
     \/ batch.kinds[FileAtCursor] = "writeThrows" /\ MayWrite(batch, DirOf(FileAtCursor))
  /\ batch' = afterThrow(batch)
  /\ UNCHANGED <<parseVars, probe, merge, calls, prop, event, scan, fn>>

\* README.md exists and overwrite is not set: the file is skipped
BatchExists ==
  /\ InFileLoop
  /\ batch.kinds[FileAtCursor] \in {"component", "writeThrows"}
  /\ ~MayWrite(batch, DirOf(FileAtCursor))
  /\ batch' = NextFile(batch)
  /\ UNCHANGED <<parseVars, probe, merge, calls, prop, event, scan, fn>>

\* writeFileSync(readmePath, readmeContent); processedCount++
BatchWrite ==
  /\ InFileLoop
  /\ batch.kinds[FileAtCursor] = "component"
  /\ MayWrite(batch, DirOf(FileAtCursor))
  /\ batch' = [NextFile(batch) EXCEPT !.readme[DirOf(FileAtCursor)] = FileAtCursor,
                                     !.processedCount = @ + 1,
                                     !.written = Append(@, FileAtCursor)]
  /\ UNCHANGED <<parseVars, probe, merge, calls, prop, event, scan, fn>>

\* the files of the pattern are done: the next pattern
BatchNextPattern ==
  /\ BatchRunning
  /\ batch.pi <= Len(batch.patterns)
  /\ batch.fi > Len(batch.patterns[batch.pi].files)
  /\ batch' = [batch EXCEPT !.pi = @ + 1, !.fi = 0]
  /\ UNCHANGED <<parseVars, probe, merge, calls, prop, event, scan, fn>>

\* return processedCount
BatchReturn ==
  /\ BatchRunning
  /\ batch.pi > Len(batch.patterns)
  /\ batch' = [batch EXCEPT !.status = "resolved"]
  /\ UNCHANGED <<parseVars, probe, merge, calls, prop, event, scan, fn>>

BatchNext ==
  \/ BatchGlob
  \/ BatchNotComponent
  \/ BatchThrow
  \/ BatchExists
  \/ BatchWrite
  \/ BatchNextPattern
  \/ BatchReturn

BatchSpec == BatchInit /\ [][BatchNext]_vars

(***************************************************************************)
(* extractEventOptions on its own: the second argument of the event        *)
(* constructor is absent, an object literal or another expression.  A      *)
(* member of the literal is [kind, name, initializer]: an assignment       *)
(* name: initializer or the shorthand name; the initializer is the word    *)
(* true, the word false, an identifier or the expression !0.  A flag of    *)
(* the record is "true", "false" or "unset".                               *)
(***************************************************************************)
Flags == {"bubbles", "composed", "cancelable"}

OptionMembers ==
  {[kind |-> "assignment", name |-> n, initializer |-> i] :
      n \in Flags \cup {"detail"}, i \in {"true", "false", "identifier", "!0"}}
  \cup {[kind |-> "shorthand", name |-> n, initializer |-> ""] : n \in Flags}

\* result[propName] = prop.initializer.getText() === 'true'
flagOfInitializer(initializer) == IF initializer = "true" THEN "true" ELSE "false"

\* the options.properties.forEach of extractEventOptions
extractEventOptions(argument, properties) ==
  LET F[i \in 0..Len(properties)] ==
        IF i = 0 THEN Unset
        ELSE IF properties[i].kind = "assignment" /\ properties[i].name \in Flags
          THEN [F[i - 1] EXCEPT ![properties[i].name] = flagOfInitializer(properties[i].initializer)]
          ELSE F[i - 1]
  IN  IF argument = "object" THEN F[Len(properties)] ELSE Unset

EventInit ==
  /\ world = W(TRUE, "local", <<>>, <<>>, <<>>, {}, <<"valid">>)
  /\ Start
  /\ fn = NoFn
  /\ scan = NoScan
  /\ probe = NoProbe
  /\ merge = NoMerge
  /\ calls = <<>>
  /\ prop = NoProp
  /\ batch = NoBatch
  /\ event \in {[argument |-> "object", properties |-> ps, done |-> FALSE, options |-> Unset] :
                   ps \in SeqsUpTo(OptionMembers, MaxOptions)}
              \cup {[argument |-> a, properties |-> <<>>, done |-> FALSE, options |-> Unset] :
                      a \in {"none", "identifier"}}

\* extractEvents: const options = extractEventOptions(arg)
EventExtract ==
  /\ ~event.done
  /\ event' = [event EXCEPT !.done = TRUE,
                            !.options = extractEventOptions(event.argument, event.properties)]
  /\ UNCHANGED <<parseVars, probe, merge, calls, prop, batch, scan, fn>>

EventNext == EventExtract

EventSpec == EventInit /\ [][EventNext]_vars

(***************************************************************************)
(* searchDirectoryForMatchingFile on its own: the directory /d is listed   *)
(* and scanned for the base name foo.  An entry of the listing is          *)
(* [name, isFile]; the names are foox.ts, fooxy.js, fooxyz.ts, foox.css,   *)
(* bar.ts for files and food, fooxyzw for directories, which may hold an   *)
(* index.ts.  readdirSync gives the entries in any order.                  *)
(***************************************************************************)
MATCHING_EXTENSIONS == Range(extensionPriority)

\* the number of characters of a part of a name
TextLength(t) ==
  CASE t \in {"ts", "js"} -> 2
    [] t \in {"css", "bar"} -> 3
    [] t \in {"foox", "food"} -> 4
    [] t = "fooxy" -> 5
    [] t = "fooxyz" -> 6
    [] t = "fooxyzw" -> 7

\* entryName.length: the parts and the dots between them
NameLength(name) ==
  LET F[i \in 0..Len(name)] == IF i = 0 THEN 0 ELSE F[i - 1] + TextLength(name[i])
  IN  F[Len(name)] + Len(name) - 1

BaseNameLength == 3

\* entryName.startsWith('foo')
startsWithBaseName(name) == name[1] \in {"foox", "food", "fooxy", "fooxyz", "fooxyzw"}

\* pathExtname(entryName), "" without extension
pathExtname(name) == IF Len(name) > 1 THEN Last(name) ELSE ""

\* the loop over the entries: bestPath is NoPath while bestMatch is null
RECURSIVE scanEntries(_, _, _, _, _, _)
scanEntries(fs, directory, entries, i, bestPath, bestScore) ==
  IF i > Len(entries) THEN bestPath
  ELSE LET entryName == entries[i].name
           score == NameLength(entryName) - BaseNameLength
       IN  IF entries[i].isFile
             THEN IF /\ pathExtname(entryName) \in MATCHING_EXTENSIONS
                     /\ startsWithBaseName(entryName)
                     /\ (bestPath = NoPath \/ score < bestScore)
                    THEN scanEntries(fs, directory, entries, i + 1, Append(directory, entryName), score)
                    ELSE scanEntries(fs, directory, entries, i + 1, bestPath, bestScore)
             ELSE IF /\ startsWithBaseName(entryName)
                     /\ tryResolveFile(fs, Append(directory, entryName)) # NoPath
                    THEN tryResolveFile(fs, Append(directory, entryName))
                    ELSE scanEntries(fs, directory, entries, i + 1, bestPath, bestScore)

searchDirectoryForMatchingFile(fs, entries, directory) ==
  scanEntries(fs, directory, entries, 1, NoPath, 0)

FileEntries ==
  {[name |-> n, isFile |-> TRUE] :
     n \in {<<"foox", "ts">>, <<"fooxy", "js">>, <<"fooxyz", "ts">>, <<"foox", "css">>, <<"bar", "ts">>}}

DirectoryEntries == {[name |-> n, isFile |-> FALSE] : n \in {<<"food">>, <<"fooxyzw">>}}

Listings == {l \in SeqsUpTo(FileEntries \cup DirectoryEntries, MaxListing) : Distinct(l)}

\* the file system of a listing: its entries in /d, and the index files
ListedFs(entries, indexFiles) ==
  [files |-> {Append(<<D>>, e.name) : e \in {x \in Range(entries) : x.isFile}}
             \cup {f \in indexFiles : \E e \in Range(entries) : ~e.isFile /\ Front(f) = Append(<<D>>, e.name)},
   dirs |-> {<<D>>} \cup {Append(<<D>>, e.name) : e \in {x \in Range(entries) : ~x.isFile}}]

IndexFiles == {<<D, <<"food">>, <<"index", "ts">>>>, <<D, <<"fooxyzw">>, <<"index", "ts">>>>}

ScanInit ==
  /\ world = W(TRUE, "local", <<>>, <<>>, <<>>, {}, <<"valid">>)
  /\ Start
  /\ fn = NoFn
  /\ probe = NoProbe
  /\ merge = NoMerge
  /\ calls = <<>>
  /\ prop = NoProp
  /\ batch = NoBatch
  /\ event = NoEvent
  /\ scan \in {[entries |-> l, fs |-> ListedFs(l, ix), done |-> FALSE, result |-> NoPath] :
                  l \in Listings, ix \in SUBSET IndexFiles}

\* resolveImportPath: searchDirectoryForMatchingFile(dir, fallbackBase)
ScanSearch ==
  /\ ~scan.done
  /\ scan' = [scan EXCEPT !.done = TRUE,
                          !.result = searchDirectoryForMatchingFile(scan.fs, scan.entries, <<D>>)]
  /\ UNCHANGED <<parseVars, probe, merge, calls, prop, batch, event, fn>>

ScanNext == ScanSearch

ScanSpec == ScanInit /\ [][ScanNext]_vars

(***************************************************************************)
(* extractClassFromFunctionLike on its own: a function declaration with a  *)
(* block body.  A statement is a class declaration [name, hasExtends], a   *)
(* return statement with an expression [wraps, core, name] (core is a      *)
(* class literal, an identifier or a call; wraps are the parentheses and   *)
(* type assertions around it), or a return without expression.  A class    *)
(* node is named by the statement that holds it.                           *)
(***************************************************************************)
ClassStatement(name, hasExtends) ==
  [kind |-> "class", name |-> name, hasExtends |-> hasExtends, wraps |-> <<>>, core |-> ""]

ReturnStatement(wraps, core, name) ==
  [kind |-> "return", name |-> name, hasExtends |-> FALSE, wraps |-> wraps, core |-> core]

\* return;
ReturnNothing == ReturnStatement(<<>>, "", "")

\* the parentheses and the as and <T> assertions are taken off
RECURSIVE Unwrapped(_)
Unwrapped(expression) ==
  IF expression.wraps = <<>> THEN expression
  ELSE Unwrapped([expression EXCEPT !.wraps = Tail(@)])

\* extractClassFromExpression on the expression of the return statement at i
extractClassFromExpression(expression, i) ==
  IF Unwrapped(expression).core = "classLiteral" THEN [kind |-> "literal", at |-> i] ELSE NoClass

\* extractIdentifierFromExpression, "" for null
extractIdentifierFromExpression(expression) ==
  IF Unwrapped(expression).core = "identifier" THEN Unwrapped(expression).name ELSE ""

\* the Map classDeclarations as the sequence of its keys in insertion order
\* and the statement each key maps to: a later declaration of a name takes
\* the place of the value, the key keeps its position
ClassDeclarationKeys(statements) ==
  LET F[i \in 0..Len(statements)] ==
        IF i = 0 THEN <<>>
        ELSE IF statements[i].kind = "class" /\ statements[i].name \notin Range(F[i - 1])
          THEN Append(F[i - 1], statements[i].name)
          ELSE F[i - 1]
  IN  F[Len(statements)]

ClassDeclarationAt(statements, name) ==
  CHOOSE i \in 1..Len(statements) :
    /\ statements[i].kind = "class" /\ statements[i].name = name
    /\ \A j \in (i + 1)..Len(statements) : ~(statements[j].kind = "class" /\ statements[j].name = name)

\* variant: the first collected class is taken, base-class clauses are not looked at
fallbackFirstDeclared(statements) ==
  LET keys == ClassDeclarationKeys(statements)
  IN  IF keys = <<>> THEN NoClass
      ELSE [kind |-> "class", at |-> ClassDeclarationAt(statements, keys[1])]

\* no return statement resolved: a collected class with an extends clause,
\* else the first collected class, else null
fallbackClass(statements) ==
  LET keys == ClassDeclarationKeys(statements)
      withExtends == {k \in 1..Len(keys) : statements[ClassDeclarationAt(statements, keys[k])].hasExtends}
  IN  IF keys = <<>> THEN NoClass
      ELSE IF withExtends # {}
        THEN [kind |-> "class",
              at |-> ClassDeclarationAt(statements, keys[CHOOSE k \in withExtends : \A o \in withExtends : k <= o])]
        ELSE [kind |-> "class", at |-> ClassDeclarationAt(statements, keys[1])]

\* the loop over the return statements, from statement i on
RECURSIVE classOfReturns(_, _)
classOfReturns(statements, i) ==
  IF i > Len(statements) THEN fallbackClass(statements)
  ELSE IF statements[i].kind = "return" /\ statements[i].core # ""
    THEN LET classNode == extractClassFromExpression(statements[i], i)
             returnedIdentifier == extractIdentifierFromExpression(statements[i])
         IN  IF classNode # NoClass THEN classNode
             ELSE IF returnedIdentifier # "" /\ returnedIdentifier \in Range(ClassDeclarationKeys(statements))
               THEN [kind |-> "class", at |-> ClassDeclarationAt(statements, returnedIdentifier)]
               ELSE classOfReturns(statements, i + 1)
    ELSE classOfReturns(statements, i + 1)

\* extractClassFromFunctionLike(node) for a node with a block body
extractClassFromFunctionLike(statements) == classOfReturns(statements, 1)

Statements ==
  {ClassStatement(n, e) : n \in {"X", "Y"}, e \in BOOLEAN}
  \cup {ReturnStatement(w, c, n) :
         w \in {<<>>, <<"paren">>, <<"as">>},
         c \in {"classLiteral", "identifier"}, n \in {"X"}}
  \cup {ReturnStatement(<<>>, "identifier", n) : n \in {"Y", "Z"}}
  \cup {ReturnStatement(<<>>, "call", ""), ReturnNothing}

\* the blocks in which no class name is declared twice
Blocks ==
  {b \in SeqsUpTo(Statements, MaxBody) :
     \A i, j \in 1..Len(b) : (b[i].kind = "class" /\ b[j].kind = "class" /\ b[i].name = b[j].name) => i = j}

FnInit ==
  /\ world = W(TRUE, "local", <<>>, <<>>, <<>>, {}, <<"valid">>)
  /\ Start
  /\ probe = NoProbe
  /\ merge = NoMerge
  /\ calls = <<>>
  /\ prop = NoProp
  /\ batch = NoBatch
  /\ event = NoEvent
  /\ scan = NoScan
  /\ fn \in {[statements |-> b, done |-> FALSE, classNode |-> NoClass, declared |-> FALSE] : b \in Blocks}

\* collectMixinDeclarations: a function declaration gets a record when
\* extractClassFromFunctionLike gives a class node
FnExtract ==
  /\ ~fn.done
  /\ fn' = [fn EXCEPT !.done = TRUE,
                      !.classNode = extractClassFromFunctionLike(fn.statements),
                      !.declared = extractClassFromFunctionLike(fn.statements) # NoClass]
  /\ UNCHANGED <<parseVars, probe, merge, calls, prop, batch, event, scan>>

FnNext == FnExtract

FnSpec == FnInit /\ [][FnNext]_vars

(***************************************************************************)
(* Properties.                                                             *)
(***************************************************************************)
NameSet(entries) == {entries[i].name : i \in 1..Len(entries)}

Count(entries, name) == Cardinality({i \in 1..Len(entries) : entries[i].name = name})

NoDupNames(entries) == \A i, j \in 1..Len(entries) : entries[i].name = entries[j].name => i = j

NoDupValues(values) == \A i, j \in 1..Len(values) : values[i] = values[j] => i = j

NamedFields == {"slots", "cssProperties", "cssParts", "properties", "events", "methods"}

\* the facts a composition function declares itself, class node and doc node
OwnFacts(w, k) ==
  mergeClassDocParts(collectClassDocParts(w, k, FALSE), docPartsFromJsDoc(DocNodeJsDoc(w, k)))

Returned == status = "done" /\ componentDocs # <<>>

ResultDocs == componentDocs[1].docs

ResultKey == <<componentDocs[1].filePath, componentDocs[1].className>>

LocalMixin(w, n) == n \in DOMAIN MixinSources(w, Entry)

\* C1: the methods of every returned component record are exactly the methods
\* declared on the component class; no method of a composition function,
\* applied directly or reached through nesting, is among them.
C1_ComponentMethodsOnly ==
  componentDocs # <<>> => ResultDocs.methods = MembersOf(world, ResultKey).methods

\* a directly applied function whose resolved fragment holds methods of a
\* function it wraps, in a call that returned a record
C1_Witness ==
  /\ Returned
  /\ \E n \in Range(world.chain) :
       /\ <<Entry, n>> \in DOMAIN docsCache
       /\ \E i \in 1..Len(heap[docsCache[<<Entry, n>>]].methods) :
            heap[docsCache[<<Entry, n>>]].methods[i].from # <<Entry, n>>

\* the layers of the base-class clause are local functions that wrap nothing
\* outside the clause, and no two layers declare a fact of the same name
ChainOfLocalLayers(w) ==
  /\ w.chain # <<>>
  /\ \A n \in Range(w.chain) :
       LocalMixin(w, n) /\ Range(MixinSources(w, Entry)[n]) \subseteq Range(w.chain)

NoSharedNames(w, k) ==
  \A f \in NamedFields :
    /\ \A n \in Range(w.chain) :
         NameSet(OwnFacts(w, <<Entry, n>>)[f]) \cap NameSet(collectClassDocParts(w, k, TRUE)[f]) = {}
    /\ \A n, m \in Range(w.chain) :
         n # m => NameSet(OwnFacts(w, <<Entry, n>>)[f]) \cap NameSet(OwnFacts(w, <<Entry, m>>)[f]) = {}

UnionOfLayers(w, k, f) ==
  NameSet(collectClassDocParts(w, k, TRUE)[f])
    \cup UNION {NameSet(OwnFacts(w, <<Entry, n>>)[f]) : n \in Range(w.chain)}

\* C2: for a chain of composition functions without a shared fact name, the
\* slots, events, style properties and style parts of the result are the union
\* of the facts of the component and of each layer, by name and by number.
C2_ChainUnion ==
  (Returned /\ ChainOfLocalLayers(world) /\ NoSharedNames(world, ResultKey)) =>
    \A f \in {"slots", "events", "cssProperties", "cssParts"} :
      /\ NameSet(ResultDocs[f]) = UnionOfLayers(world, ResultKey, f)
      /\ Len(ResultDocs[f]) = Cardinality(UnionOfLayers(world, ResultKey, f))

\* a returned record for a clause A(B(C(LitElement))) of three different layers
C2_Witness ==
  /\ Returned
  /\ ChainOfLocalLayers(world)
  /\ NoSharedNames(world, ResultKey)
  /\ Len(world.chain) = 3
  /\ Cardinality(Range(world.chain)) = 3

\* m is applied on the clause and is also wrapped by another function of the clause
ReachedTwice(w, m) ==
  /\ m \in Range(w.chain)
  /\ LocalMixin(w, m)
  /\ \E n \in Range(w.chain) :
       n # m /\ LocalMixin(w, n) /\ m \in Range(MixinSources(w, Entry)[n])

\* C3: a composition function reached twice from one component, directly and
\* through a nested dependency, gives each of its properties and events once.
C3_TwiceReachedOnce ==
  Returned =>
    \A m \in Mixins :
      ReachedTwice(world, m) =>
        \A f \in {"properties", "events"} :
          \A name \in NameSet(OwnFacts(world, <<Entry, m>>)[f]) : Count(ResultDocs[f], name) = 1

\* a returned record of a component that reaches a function twice
C3_Witness == Returned /\ \E m \in Mixins : ReachedTwice(world, m)

NoDupFragment(d) ==
  /\ \A f \in NamedFields : NoDupNames(d[f])
  /\ NoDupValues(d.usage)
  /\ NoDupValues(d.dependencies)

\* C4: the request for a key that is being resolved returns null, changes
\* nothing and raises nothing, and no resolved fragment holds a fact twice.
C4_CycleCutSilently ==
  [][/\ (stack # <<>> /\ Top.kind = "call" /\ Top.key \in resolvingKeys) =>
          /\ ret' = Null
          /\ stack' = Pop
          /\ status' = status
          /\ UNCHANGED <<heap, docsCache, resolvingKeys>>
     /\ \A k \in DOMAIN docsCache' : NoDupFragment(heap'[docsCache'[k]])]_vars

\* B, wrapped by A and wrapping A, has just got null for its request of A
C4_Witness ==
  /\ world.mode = "local" /\ world.hA = <<"B">> /\ world.hB = <<"A">>
  /\ stack # <<>>
  /\ Top.kind = "decl"
  /\ Top.key = <<Entry, "B">>
  /\ <<Entry, "A">> \in resolvingKeys
  /\ ret = Null
  /\ Top.names = <<"Base">>

\* C5: every call terminates, whatever the composition graph.
C5_Terminates == <>(status \in {"done", "thrown"})

\* a finished call over an import cycle between the two files
C5_Witness == status = "done" /\ world.mode = "cycle" /\ "A" \in Range(world.chain)

\* C6: a missing file never makes parseLitComponent throw: neither a missing
\* entry file nor an import of a file that does not exist.
C6_MissingFileNeverThrows ==
  /\ status # "thrown"
  /\ (status = "done" /\ world.mode = "missing") =>
        \A k \in DOMAIN docsCache : k[1] = Entry /\ k[2] # "A"

FirstValid(w) ==
  CHOOSE i \in 1..Len(w.classes) :
    /\ w.classes[i] = "valid"
    /\ \A j \in 1..(i - 1) : w.classes[j] # "valid"

\* C7: in a file of several classes the classes that are not LitElement classes
\* and the LitElement classes without tag are skipped, and the record of the
\* first valid component is returned, wherever the skipped classes stand.
C7_FirstValidComponent ==
  (status = "done" /\ "valid" \in Range(world.classes)) =>
    /\ componentDocs # <<>>
    /\ componentDocs[1].className = ClassNames[FirstValid(world)]

\* C8: for a class that extends LitElement and has no customElement annotation
\* with a string-literal tag name, parseClassDeclaration returns null and
\* throws nothing.
C8_NoTagGivesNull ==
  [][(/\ Visiting
      /\ extendsLitElement(ClassesOf(world)[visitIdx])
      /\ ClassesOf(world)[visitIdx].decorator # "literal") =>
        /\ componentDocs' = <<>>
        /\ status' = "visiting"
        /\ stack' = <<>>
        /\ visitIdx' = visitIdx + 1]_vars

\* the class whose customElement argument is not a string literal has just
\* been visited
C8_Witness ==
  /\ status = "visiting"
  /\ stack = <<>>
  /\ visitIdx > 1
  /\ world.classes[visitIdx - 1] = "nonliteral"
  /\ componentDocs = <<>>

FooEntries(fs) ==
  (fs.files \cap {Foo("ts"), Foo("tsx"), Foo("js"), FooIndex("ts"), FooIndex("js")})

\* C9: ./foo resolves to ./foo.ts when that file is present, otherwise to
\* ./foo/index.ts when it is present; with no candidate at all it is null.
C9_FooTsThenIndex ==
  (probe.done /\ probe.specifier = SpecFoo) =>
    /\ Foo("ts") \in probe.fs.files => probe.result = Foo("ts")
    /\ (Foo("ts") \notin probe.fs.files /\ FooIndex("ts") \in probe.fs.files) =>
          probe.result = FooIndex("ts")
    /\ FooEntries(probe.fs) = {} => probe.result = NoPath

\* C10: the cache is never changed through a returned fragment: a cached
\* fragment keeps its contents, with the methods and facts of its declaration,
\* every returned fragment is another object than the cached one, and a cache
\* hit returns the contents of the cached fragment.
C10_ReturnedCopies ==
  [][/\ \A k \in DOMAIN docsCache :
          k \in DOMAIN docsCache' /\ heap'[docsCache'[k]] = heap[docsCache[k]]
     /\ \A k \in DOMAIN docsCache' :
          /\ ret' # docsCache'[k]
          /\ (k[1] \in DOMAIN fileInfoMap' /\ k[2] \in DOMAIN fileInfoMap'[k[1]].declarations) =>
                \A f \in NamedFields :
                  Range(OwnFacts(world, k)[f]) \subseteq Range(heap'[docsCache'[k]][f])
     /\ (Calling /\ Top.key \in DOMAIN docsCache) =>
          (ret' > Null /\ heap'[ret'] = heap[docsCache[Top.key]])]_vars

\* a cache hit has just returned the full fragment of a key of which an
\* earlier copy had its methods emptied at the attachment
C10_Witness ==
  /\ ret > Null
  /\ \E k \in DOMAIN docsCache :
       /\ heap[docsCache[k]].methods # <<>>
       /\ heap[ret] = heap[docsCache[k]]
       /\ \E r \in 1..Len(heap) :
            /\ docsCache[k] < r
            /\ r < ret
            /\ heap[r] = [heap[docsCache[k]] EXCEPT !.methods = <<>>]

IsPrefix(a, b) == Len(a) <= Len(b) /\ \A i \in 1..Len(a) : b[i] = a[i]

CountValue(values, v) == Cardinality({i \in 1..Len(values) : values[i] = v})

\* C11: mergeClassDocParts never introduces a duplicate: a name (a value for
\* usage and dependencies) found more than once in the target afterwards was
\* there as many times before, and the entries of the target stay unchanged
\* and in place, so that the target's entry wins a tie of names.
C11_MergeAddsNoDuplicate ==
  merge.done =>
    /\ \A f \in NamedFields :
         /\ IsPrefix(merge.target[f], merge.result[f])
         /\ \A n \in NameSet(merge.result[f]) :
              Count(merge.result[f], n) > 1 =>
                Count(merge.result[f], n) = Count(merge.target[f], n)
    /\ \A f \in {"usage", "dependencies"} :
         /\ IsPrefix(merge.target[f], merge.result[f])
         /\ \A v \in Range(merge.result[f]) :
              CountValue(merge.result[f], v) > 1 =>
                CountValue(merge.result[f], v) = CountValue(merge.target[f], v)

\* a merge that appended an entry and met a name held by both fragments with
\* different entries
C11_Witness ==
  /\ merge.done
  /\ Len(merge.result.slots) > Len(merge.target.slots)
  /\ \E i \in 1..Len(merge.target.slots), j \in 1..Len(merge.source.slots) :
       /\ merge.target.slots[i].name = merge.source.slots[j].name
       /\ merge.target.slots[i] # merge.source.slots[j]

Layer(key, via, isComponent) == [key |-> key, via |-> via, isComponent |-> isComponent]

\* the facts a layer declares
LayerFacts(w, l) ==
  IF l.via = "class" THEN collectClassDocParts(w, l.key, l.isComponent)
  ELSE docPartsFromJsDoc(DocNodeJsDoc(w, l.key))

\* the layers behind the names of a base-class clause of the entry file, outer
\* to inner: for each function its class, its doc node, then its own clause; a
\* function met while it is being resolved adds nothing
RECURSIVE LayersOf(_, _, _)
LayersOf(w, names, inProgress) ==
  IF names = <<>> THEN <<>>
  ELSE LET n == Head(names)
           here == IF LocalMixin(w, n) /\ n \notin inProgress
                     THEN <<Layer(<<Entry, n>>, "class", FALSE), Layer(<<Entry, n>>, "doc", FALSE)>>
                            \o LayersOf(w, MixinSources(w, Entry)[n], inProgress \cup {n})
                     ELSE <<>>
       IN  here \o LayersOf(w, Tail(names), inProgress)

\* every entry of d[f] is the entry of the first layer that holds its name, and
\* the description is that of the first layer that has one
KeepsOutermost(w, d, order, fields) ==
  /\ \A f \in fields :
       \A e \in Range(d[f]) :
         \E i \in 1..Len(order) :
           /\ e \in Range(LayerFacts(w, order[i])[f])
           /\ \A j \in 1..(i - 1) : e.name \notin NameSet(LayerFacts(w, order[j])[f])
  /\ \/ /\ d.description = <<>>
        /\ \A i \in 1..Len(order) : LayerFacts(w, order[i]).description = <<>>
     \/ \E i \in 1..Len(order) :
          /\ d.description # <<>>
          /\ d.description = LayerFacts(w, order[i]).description
          /\ \A j \in 1..(i - 1) : LayerFacts(w, order[j]).description = <<>>

\* no function of the entry file wraps itself, directly or through another
Acyclic(w) ==
  \A n \in DOMAIN MixinSources(w, Entry) :
    \A i \in 1..Len(LayersOf(w, MixinSources(w, Entry)[n], {})) :
      LayersOf(w, MixinSources(w, Entry)[n], {})[i].key # <<Entry, n>>

\* C12: of several layers that declare a description or a fact of one name the
\* most outer one is kept: the class facts of a declaration, then the facts of
\* its doc node, then the functions of its clause from left to right, each with
\* its whole nested chain before the next.
C12_OuterDeclarationWins ==
  world.mode = "local" =>
    /\ Returned =>
          KeepsOutermost(world, ResultDocs,
                         <<Layer(ResultKey, "class", TRUE)>> \o LayersOf(world, world.chain, {}),
                         NamedFields \ {"methods"})
    /\ \A k \in DOMAIN docsCache :
          /\ KeepsOutermost(world, heap[docsCache[k]],
                            <<Layer(k, "class", FALSE), Layer(k, "doc", FALSE)>>, {})
          /\ \A f \in NamedFields :
               \A e \in Range(heap[docsCache[k]][f]) :
                 e.name \in NameSet(OwnFacts(world, k)[f]) => (e.from = k /\ e \in Range(OwnFacts(world, k)[f]))
          /\ \A e \in Range(heap[docsCache[k]].slots) :
               e.name \in NameSet(collectClassDocParts(world, k, FALSE).slots) => e.via = "class"
          /\ Acyclic(world) =>
               KeepsOutermost(world, heap[docsCache[k]], LayersOf(world, <<k[2]>>, {}), NamedFields)

\* a returned record whose shared fact is the one of a function nested in the
\* first function of the clause, while a later function of the clause holds
\* the name too
C12_Witness ==
  /\ Returned
  /\ world.mode = "local"
  /\ Len(world.chain) >= 2
  /\ SharedBy(world, <<Entry, world.chain[2]>>)
  /\ \E e \in Range(ResultDocs.cssParts) :
       /\ e.name = SharedName
       /\ e.from[2] \in Range(MixinSources(world, Entry)[world.chain[1]])
       /\ e.from[2] \notin Range(world.chain)

\* the name whose resolution has just come back to the mixin loop of
\* parseClassDeclaration
RequestedName ==
  LET names == extractMixinNamesFromClass(ClassesOf(world)[visitIdx])
  IN  names[Len(names) - Len(Top.names)]

\* a fragment has come back to the mixin loop, before the attachment
ResolvedAlone == stack # <<>> /\ Top.kind = "attach" /\ ret > Null

\* C13: a composition function resolved on its own reports its own methods and
\* the methods of every function it wraps, directly or through nesting; the
\* methods are dropped at the attachment to the component only.
C13_StandaloneReportsWrapped ==
  (world.mode = "local" /\ ResolvedAlone) =>
    \A i \in 1..Len(LayersOf(world, <<RequestedName>>, {})) :
      NameSet(LayerFacts(world, LayersOf(world, <<RequestedName>>, {})[i]).methods)
        \subseteq NameSet(heap[ret].methods)

\* C14: every parseLitComponent call has a resolution context of its own and
\* reads nothing an earlier call wrote: the call starts on an empty cache,
\* in-progress set and file index, and gives the result, and reads the
\* files, that every earlier call on the same file gave and read.
C14_CallsIndependent ==
  /\ status = "init" => (docsCache = <<>> /\ resolvingKeys = {} /\ fileInfoMap = <<>>)
  /\ status \in {"done", "thrown"} => \A i \in 1..Len(calls) : calls[i] = Outcome

\* a second call over a file whose functions come from another file has
\* returned a record
C14_Witness ==
  /\ Len(calls) >= 1
  /\ Returned
  /\ world.mode \in {"named", "default"}
  /\ F2 \in Range(reads)
  /\ calls[1].componentDocs # <<>>

\* C15: a specifier that starts with neither '.' nor '/' resolves to null
\* whatever the file system holds, and a function imported through it is not
\* followed: its import record has no file, resolving its local name returns
\* null, caches nothing, reads no file and adds no fact to the result.
C15_BareSpecifierNotFollowed ==
  /\ status = "init" =>
        \A fs \in ProbeFileSystems \cup {WorldFs(world)} :
          \A sp \in {x \in ProbeSpecifiers : x.lead = ""} \cup {SpecPkg} :
            resolveImportPath(fs, sp, Entry) = NoPath
  /\ world.mode = "bare" =>
        /\ Entry \in DOMAIN fileInfoMap => fileInfoMap[Entry].imports["A"].filePath = NoPath
        /\ \A k \in DOMAIN docsCache : k[1] = Entry /\ k[2] # "A"
        /\ F2 \notin Range(reads) /\ F2 \notin DOMAIN fileInfoMap
        /\ (stack # <<>> /\ Top.kind = "attach" /\ ret # NoRet /\ RequestedName = "A") => ret = Null
        /\ Returned =>
              \A f \in NamedFields : \A e \in Range(ResultDocs[f]) : e.from[2] # "A"

\* the function A, declared by the sibling file f2.ts and imported from the
\* package specifier 'f2', has been requested by the mixin loop and the call
\* has returned a record
C15_Witness ==
  /\ world.mode = "bare"
  /\ "A" \in Range(world.chain)
  /\ F2 \in WorldFs(world).files
  /\ "A" \in DOMAIN MixinSources(world, F2)
  /\ Returned

\* C16: a name bound by a namespace import is never followed, even when the
\* target file resolves and declares composition functions: resolving the name
\* returns null, caches nothing, marks no key, and the target file is neither
\* indexed nor read nor entered by a resolution.
C16_NamespaceNotFollowed ==
  world.mode = "namespace" =>
    /\ Entry \in DOMAIN fileInfoMap =>
          /\ fileInfoMap[Entry].imports["A"].type = "namespace"
          /\ fileInfoMap[Entry].imports["A"].filePath = F2
    /\ \A k \in DOMAIN docsCache \cup resolvingKeys : k[1] = Entry /\ k[2] # "A"
    /\ \A i \in 1..Len(stack) : stack[i].key[1] = Entry
    /\ F2 \notin Range(reads) /\ F2 \notin DOMAIN fileInfoMap
    /\ (stack # <<>> /\ Top.kind = "attach" /\ ret # NoRet /\ RequestedName = "A") => ret = Null
    /\ Returned =>
          \A f \in NamedFields : \A e \in Range(ResultDocs[f]) : e.from[2] # "A"

\* the namespace binding A of the existing file f2.ts, which declares A, has
\* been requested by the mixin loop and has come back as null
C16_Witness ==
  /\ world.mode = "namespace"
  /\ F2 \in WorldFs(world).files
  /\ "A" \in DOMAIN MixinSources(world, F2)
  /\ stack # <<>>
  /\ Top.kind = "attach"
  /\ ret = Null
  /\ RequestedName = "A"

\* the class declaration of the entry file with the given name
ClassNamed(w, name) ==
  ClassesOf(w)[CHOOSE i \in 1..Len(w.classes) : ClassNames[i] = name]

\* C17: for a component that extends LitElement directly, with no composition
\* function on its base-class clause, the record of the mixin-aware parser is
\* the record the parser without composition support extracts from the class.
C17_NoChainEqualsDirect ==
  (componentDocs # <<>> /\ ClassNamed(world, componentDocs[1].className).chain = <<>>) =>
    componentDocs = directParseClassDeclaration(world, ClassNamed(world, componentDocs[1].className))

\* a returned record of a component that extends LitElement directly and
\* declares members and doc tags, after the name LitElement was requested
C17_Witness ==
  /\ Returned
  /\ world.chain = <<>>
  /\ ResultDocs.events # <<>>
  /\ Len(ResultDocs.slots) >= 2
  /\ ResultDocs.description # <<>>
  /\ Entry \in DOMAIN fileInfoMap
  /\ fileInfoMap[Entry].imports["LitElement"].filePath = NoPath

\* C18: the type label of a property is its type annotation, verbatim; else
\* the normalized type hint of its decorator; else the type inferred from the
\* initializer; else any.  So x = 42 gives number, the same field with a
\* String hint gives string, and x: string = 42 gives string.
C18_TypePrecedence ==
  prop.done =>
    prop.type =
      IF prop.node.annotation # "" THEN prop.node.annotation
      ELSE IF prop.node.hint # <<>> /\ normalizeDecoratorTypeName(prop.node.hint) # ""
        THEN normalizeDecoratorTypeName(prop.node.hint)
      ELSE IF inferTypeFromInitializer(prop.node.initializer) # ""
        THEN inferTypeFromInitializer(prop.node.initializer)
      ELSE "any"

\* the files matched by the patterns, pattern after pattern
RECURSIVE AllMatched(_)
AllMatched(patterns) ==
  IF patterns = <<>> THEN <<>> ELSE Head(patterns).files \o AllMatched(Tail(patterns))

\* C19: generateDocs attempts every file of every pattern: a file that is not
\* a component, or whose parsing, rendering or writing throws, is skipped and
\* the files after it are processed; the call rejects for no file, only when
\* glob itself rejects.
C19_BatchToleratesFiles ==
  /\ batch.status = "resolved" => batch.attempted = AllMatched(batch.patterns)
  /\ batch.status = "rejected" => ~batch.patterns[batch.pi].ok
  /\ IsPrefix(batch.attempted, AllMatched(batch.patterns))

\* a finished call in which a file that threw was followed by a file whose
\* README.md was written
C19_Witness ==
  /\ batch.status = "resolved"
  /\ \E i, j \in 1..Len(batch.attempted) :
       /\ i < j
       /\ batch.kinds[batch.attempted[i]] \in Throwing
       /\ batch.attempted[i] \notin Range(batch.written)
       /\ batch.attempted[j] \in Range(batch.written)

\* C20: without the overwrite option generateDocs never writes over a
\* README.md that exists, and a file skipped for that reason is not counted:
\* the returned number is the number of README.md files written.
C20_ReadmeNotOverwritten ==
  [][/\ ~batch.overwrite =>
          \A d \in Dirs : batch.readme[d] # "none" => batch'.readme[d] = batch.readme[d]
     /\ (InFileLoop /\ ~batch.overwrite /\ batch.readme[DirOf(FileAtCursor)] # "none") =>
          batch'.processedCount = batch.processedCount
     /\ batch'.processedCount = Len(batch'.written)]_vars

\* a finished call without the overwrite option that met a component in a
\* directory whose README.md was there before, and left it as it was
C20_Witness ==
  /\ batch.status = "resolved"
  /\ ~batch.overwrite
  /\ batch.readme["x"] = "old"
  /\ \E i \in 1..Len(batch.attempted) :
       batch.kinds[batch.attempted[i]] = "component" /\ DirOf(batch.attempted[i]) = "x"
  /\ batch.processedCount < Len(batch.attempted)

\* C21: the attribute of a property is the explicit name when the decorator
\* gives a string, is suppressed when the decorator says attribute: false,
\* and is the kebab-cased property name when the decorator does not say; the
\* record and the Attribute cell of the properties table tell the three
\* cases apart: the name in backticks, -- for no attribute, the kebab-cased
\* name in backticks.
C21_AttributeCases ==
  prop.rendered =>
    CASE prop.node.attributeOption.kind = "literal" ->
           /\ prop.attribute = StringValue(prop.node.attributeOption.text)
           /\ prop.cell = Ticked(prop.node.attributeOption.text)
      [] prop.node.attributeOption.kind = "false" ->
           /\ prop.attribute.tag # "string"
           /\ prop.attribute # Undefined
           /\ prop.cell = <<"-", "-">>
      [] prop.node.attributeOption.kind = "absent" ->
           /\ prop.attribute = Undefined
           /\ prop.cell = Ticked(kebabCase(prop.node.name))
      [] OTHER -> TRUE

\* the flag after reading the members in order when only the words true and
\* false are recorded and every other initializer is passed over
LiteralFlag(properties, flag) ==
  LET F[i \in 0..Len(properties)] ==
        IF i = 0 THEN "unset"
        ELSE IF /\ properties[i].kind = "assignment"
                /\ properties[i].name = flag
                /\ properties[i].initializer \in {"true", "false"}
          THEN properties[i].initializer
          ELSE F[i - 1]
  IN  F[Len(properties)]

\* C22: for an event constructed with an options object each of the flags
\* bubbles, composed and cancelable is recorded only when its value is the
\* word true or the word false; for any other expression the flag is left
\* unset.
C22_LiteralFlagsOnly ==
  (event.done /\ event.argument = "object") =>
    \A f \in Flags : event.options[f] = LiteralFlag(event.properties, f)

\* C23: within one parse call each file path is read and indexed at most
\* once: an index stored by ensureFileInfo stays the index of its path in
\* every later step, no path is read twice, and the entry file is read once
\* by parseLitComponent and indexed from that tree, so every indexed path has
\* exactly one read.
C23_IndexedOnce ==
  [][/\ \A p \in DOMAIN fileInfoMap : p \in DOMAIN fileInfoMap' /\ fileInfoMap'[p] = fileInfoMap[p]
     /\ NoDupValues(reads')
     /\ DOMAIN fileInfoMap' = Range(reads')
     /\ reads' # <<>> => reads'[1] = Entry]_vars

\* a finished call in which the imported file asked for a name of the entry
\* file again: both files are indexed and each was read once
C23_Witness ==
  /\ status = "done"
  /\ world.mode = "named"
  /\ <<F2, "C">> \in DOMAIN docsCache
  /\ <<F1, "C">> \in DOMAIN docsCache
  /\ DOMAIN fileInfoMap = {F1, F2}
  /\ reads = <<F1, F2>>

\* what an entry of the listing stands for: the path of a file with a source
\* extension, the resolved file of a directory, NoPath for anything else
MatchOf(fs, e) ==
  IF ~startsWithBaseName(e.name) THEN NoPath
  ELSE IF e.isFile
    THEN IF pathExtname(e.name) \in MATCHING_EXTENSIONS THEN Append(<<D>>, e.name) ELSE NoPath
    ELSE tryResolveFile(fs, Append(<<D>>, e.name))

ClassesAt(b) == {i \in 1..Len(b) : b[i].kind = "class"}

ResolvingReturns(b) ==
  {i \in 1..Len(b) :
     /\ b[i].kind = "return"
     /\ \/ b[i].core = "classLiteral"
        \/ b[i].core = "identifier" /\ \E j \in ClassesAt(b) : b[j].name = b[i].name}

Least(S) == CHOOSE x \in S : \A y \in S : x <= y

\* C25: for a composition function with a block body the class node is that
\* of the first return statement that resolves (a class literal, or under
\* parentheses and type assertions an identifier naming a class declared in
\* the body); with no such return statement the first declared class with a
\* base-class clause; else the first declared class; else the function gets
\* no declaration record.
C25_ClassNodeOrder ==
  fn.done =>
    LET b == fn.statements
        returns == ResolvingReturns(b)
        extending == {i \in ClassesAt(b) : b[i].hasExtends}
    IN  IF returns # {}
          THEN LET r == Least(returns)
               IN  /\ fn.declared
                   /\ IF b[r].core = "classLiteral" THEN fn.classNode = [kind |-> "literal", at |-> r]
                      ELSE fn.classNode.kind = "class" /\ b[fn.classNode.at].name = b[r].name
        ELSE IF extending # {} THEN fn.declared /\ fn.classNode = [kind |-> "class", at |-> Least(extending)]
        ELSE IF ClassesAt(b) # {} THEN fn.declared /\ fn.classNode = [kind |-> "class", at |-> Least(ClassesAt(b))]
        ELSE ~fn.declared /\ fn.classNode = NoClass

\* a function whose return statement names no class of the body and whose
\* second declared class is the first with a base-class clause
C25_Witness ==
  /\ fn.done
  /\ ResolvingReturns(fn.statements) = {}
  /\ \E i \in 1..Len(fn.statements) : fn.statements[i].kind = "return" /\ fn.statements[i].core = "identifier"
  /\ Cardinality(ClassesAt(fn.statements)) = 2
  /\ fn.classNode.kind = "class"
  /\ fn.classNode.at # Least(ClassesAt(fn.statements))

\* the frames of the resolveMixinDocs calls that have marked their key
MarkedFrames == {i \in 1..Len(stack) : stack[i].kind \in {"decl", "import"}}

\* C26: the in-progress set follows stack discipline: it holds exactly the
\* keys of the resolveMixinDocs calls that are resolving on the recursion
\* stack, each once, and it is empty whenever control is back in the
\* component attachment, that is whenever a call made by it has returned.
C26_InProgressIsStack ==
  /\ resolvingKeys = {stack[i].key : i \in MarkedFrames}
  /\ \A i, j \in MarkedFrames : stack[i].key = stack[j].key => i = j
  /\ (stack = <<>> \/ Top.kind = "attach") => resolvingKeys = {}

\* back in the attachment with a fragment whose resolution went through two
\* nested keys at least
C26_Witness ==
  /\ stack # <<>>
  /\ Top.kind = "attach"
  /\ ret > Null
  /\ Cardinality(DOMAIN docsCache) >= 2
  /\ resolvingKeys = {}

\* resolveMixinDocs(key) in a context whose cache is cache, with the keys
\* inProgress being resolved: the returned fragment (<<>> for null) and the
\* cache afterwards
RECURSIVE resolveIn(_, _, _, _)
RECURSIVE buildIn(_, _, _, _, _, _)
resolveIn(w, key, cache, inProgress) ==
  LET nothing == [docs |-> <<>>, cache |-> cache]
      declarations == collectMixinDeclarations(w, key[1])
      imports == collectImportRecords(w, key[1])
  IN  IF key \in DOMAIN cache THEN [docs |-> <<cache[key]>>, cache |-> cache]
      ELSE IF key \in inProgress THEN nothing
      ELSE IF ~existsSync(WorldFs(w), key[1]) THEN nothing
      ELSE IF key[2] \in DOMAIN declarations
        THEN LET built == buildIn(w, key[1], extractMixinNamesFromClass(declarations[key[2]].classNode),
                                  mergeClassDocParts(collectClassDocParts(w, key, FALSE),
                                                     docPartsFromJsDoc(DocNodeJsDoc(w, key))),
                                  cache, inProgress \cup {key})
             IN  [docs |-> <<built.docs>>, cache |-> (key :> built.docs) @@ built.cache]
      ELSE IF key[2] \in DOMAIN imports /\ imports[key[2]].filePath # NoPath /\ Followed(imports[key[2]])
        THEN LET r == resolveIn(w, <<imports[key[2]].filePath, imports[key[2]].exportName>>,
                                cache, inProgress \cup {key})
             IN  IF r.docs = <<>> THEN r
                 ELSE [docs |-> r.docs, cache |-> (key :> r.docs[1]) @@ r.cache]
      ELSE nothing

buildIn(w, filePath, names, docs, cache, inProgress) ==
  IF names = <<>> THEN [docs |-> docs, cache |-> cache]
  ELSE LET r == resolveIn(w, <<filePath, Head(names)>>, cache, inProgress)
       IN  buildIn(w, filePath, Tail(names),
                   IF r.docs = <<>> THEN docs ELSE mergeClassDocParts(docs, r.docs[1]),
                   r.cache, inProgress)

\* the fragment of a key in a new, empty context
FreshFragment(w, key) == resolveIn(w, key, <<>>, {}).docs

\* the key whose resolution has just returned to the frame on top
ReturnedKey ==
  IF Top.kind = "import"
    THEN <<fileInfoMap[Top.key[1]].imports[Top.key[2]].filePath,
           fileInfoMap[Top.key[1]].imports[Top.key[2]].exportName>>
    ELSE LET names == IF Top.kind = "attach"
                        THEN extractMixinNamesFromClass(ClassesOf(world)[visitIdx])
                        ELSE extractMixinNamesFromClass(
                               fileInfoMap[Top.key[1]].declarations[Top.key[2]].classNode)
         IN  <<Top.key[1], names[Len(names) - Len(Top.names)]>>

\* C27: memoization is transparent: the fragment resolveMixinDocs returns for
\* a key, from the cache or freshly built, and the fragment the cache holds
\* for a key, equal the fragment that resolving the key in a new, empty
\* context returns.
C27_MemoizationTransparent ==
  /\ \A k \in DOMAIN docsCache : <<heap[docsCache[k]]>> = FreshFragment(world, k)
  /\ (stack # <<>> /\ ret > Null) => <<heap[ret]>> = FreshFragment(world, ReturnedKey)

\* the keys a key leads to: the functions of the clause of a local
\* declaration, the exported name behind a named or default import with a file
StepsOf(w, key) ==
  IF ~existsSync(WorldFs(w), key[1]) THEN {}
  ELSE LET declarations == collectMixinDeclarations(w, key[1])
           imports == collectImportRecords(w, key[1])
       IN  IF key[2] \in DOMAIN declarations
             THEN {<<key[1], n>> : n \in Range(extractMixinNamesFromClass(declarations[key[2]].classNode))}
           ELSE IF key[2] \in DOMAIN imports /\ imports[key[2]].filePath # NoPath /\ Followed(imports[key[2]])
             THEN {<<imports[key[2]].filePath, imports[key[2]].exportName>>}
           ELSE {}

RECURSIVE ReachableFrom(_, _, _)
ReachableFrom(w, frontier, seen) ==
  IF frontier \subseteq seen THEN seen
  ELSE ReachableFrom(w, UNION {StepsOf(w, k) : k \in frontier \ seen}, seen \cup frontier)

\* the reachable keys that name a declaration of their file
ReachableDeclarations(w, node) ==
  {k \in ReachableFrom(w, {<<Entry, n>> : n \in Range(extractMixinNamesFromClass(node))}, {}) :
     existsSync(WorldFs(w), k[1]) /\ k[2] \in DOMAIN collectMixinDeclarations(w, k[1])}

\* the facts a declaration states: those of its class and of its doc node
DeclaredFacts(w, k) ==
  mergeClassDocParts(collectClassDocParts(w, k, FALSE), docPartsFromJsDoc(DocNodeJsDoc(w, k)))

\* C28: for any composition graph, cyclic ones included, the names of the
\* properties, events, slots, style properties and style parts of a
\* component's result are exactly the names declared by the component and by
\* every declaration reachable from its base-class clause through local
\* declarations and named or default imports with a file.
C28_ReachableNamesExactly ==
  Returned =>
    \A f \in NamedFields \ {"methods"} :
      NameSet(ResultDocs[f]) =
        NameSet(collectClassDocParts(world, ResultKey, TRUE)[f])
        \cup UNION {NameSet(DeclaredFacts(world, k)[f]) :
                    k \in ReachableDeclarations(world, ClassNamed(world, componentDocs[1].className))}

\* the step is the begin of buildDocsFromDeclaration for the key on top
BuildBegins == stack # <<>> /\ Top.kind = "call" /\ Len(stack') = Len(stack) /\ stack'[Len(stack')].kind = "decl"

\* C29: each key that names a local declaration is built at most once in a
\* parse call and the cache is write-once: a build begins only for a key that
\* is neither cached nor in progress, a key once in progress or cached for a
\* declaration stays so until it is cached, a cache entry is never replaced,
\* no key is cached and in progress at once, and a request for a cached key
\* is answered with a copy of the cached fragment and builds nothing.
C29_BuiltOnceWriteOnce ==
  [][/\ BuildBegins => (Top.key \notin DOMAIN docsCache /\ Top.key \notin resolvingKeys)
     /\ \A i \in 1..Len(stack) :
          stack[i].kind = "decl" => stack[i].key \in resolvingKeys' \cup DOMAIN docsCache'
     /\ \A k \in DOMAIN docsCache : k \in DOMAIN docsCache' /\ docsCache'[k] = docsCache[k]
     /\ resolvingKeys' \cap DOMAIN docsCache' = {}
     /\ (stack # <<>> /\ Top.kind = "call" /\ Top.key \in DOMAIN docsCache) =>
          /\ stack' = Pop
          /\ ret' > Null
          /\ heap'[ret'] = heap[docsCache[Top.key]]
          /\ docsCache' = docsCache
          /\ resolvingKeys' = resolvingKeys]_vars

\* a request for the key of a declaration that was built before
C29_Witness ==
  /\ stack # <<>>
  /\ Top.kind = "call"
  /\ Top.key \in DOMAIN docsCache
  /\ Top.key[2] \in DOMAIN collectMixinDeclarations(world, Top.key[1])

\* C30: mergeClassDocParts is idempotent and leaves its source untouched:
\* merging the same source into the target a second time changes nothing in
\* the target, and the source is the same fragment after every merge.
C30_MergeIdempotent ==
  [][/\ merge'.source = merge.source
     /\ merge.done => merge'.result = merge.result]_vars

\* a second merge of a source whose first merge gave the target a description,
\* a usage example and an entry, and left an entry of the source out
C30_Witness ==
  /\ merge.again
  /\ merge.target.description = <<>>
  /\ merge.result.description # <<>>
  /\ Len(merge.result.usage) > Len(merge.target.usage)
  /\ Len(merge.result.slots) > Len(merge.target.slots)
  /\ Len(merge.result.slots) < Len(merge.target.slots) + Len(merge.source.slots)

====
